---- MODULE Spec2Model ----
(***************************************************************************)
(* Model of the mcp-browser-devtools session lifecycle (SessionManager,    *)
(* IdleTimer, sessionStart, sessionStop, the page tools) and of the CSS    *)
(* cascade engine (findWinningDeclaration).                                *)
(*                                                                         *)
(* The repository carries two bodies of sessionStart:                      *)
(*   "twoPhase"    src/src/tools/session-start.ts (hook run before and     *)
(*                 after the browser launch, ALREADY_STARTED check)        *)
(*   "singlePhase" src/unnamed/part_000 (hook run once with the page,      *)
(*                 optional url navigation, no ALREADY_STARTED check)      *)
(* Both run against the one SessionManager of src/src/session/hooks.ts.    *)
(* The variable `variant` fixes, per behaviour, which body is built in.    *)
(*                                                                         *)
(* Every async function is cut at its awaits: one action is the code that  *)
(* runs between two awaits (Node runs it without interleaving).            *)
(***************************************************************************)
EXTENDS Integers, Sequences, FiniteSets, TLC

----------------------------------------------------------------------------
(* Bounds *)

\* number of browser launches that can succeed in one behaviour
MaxSessions == 2
\* number of tool-call requests that can be in flight together
MaxTasks == 2
\* policy.idleMs, counted in clock ticks
IdleTicks == 2
\* the clock (Date.now()) saturates here
MaxClock == 1
\* declarations the style engine reports for one node, inline and in rules
MaxProps == 2
\* matched rules the style engine reports for one node
MaxRules == 2
\* lines of a stylesheet text
MaxLines == 2
\* nodes of the document a target matches, and the maxResults asked for,
\* below the default and the cap
MaxMatches == 3
\* actions in the list of one pageInteract call
MaxActions == 3
\* characters of the page's HTML
MaxHtml == 3
MaxRequested == 2
MaxStyles == 2

Sids == 1..MaxSessions
Reqs == 1..MaxTasks
\* the teardown started by the timer of session s runs as task MaxTasks + s
BgTask(s) == MaxTasks + s
TaskIds == 1..(MaxTasks + MaxSessions)

Variants == {"twoPhase", "singlePhase"}

\* IdleTimer.timeout === null
NotPending == -1

\* tools that call sessionManager.getSession()
PageTools == {"navigate", "getElement", "getCssProvenance", "pageInteract",
              "getPageContent", "screenshot", "evaluateJavaScript"}
Tools == PageTools \cup {"getConsoleLogs"}

VARIABLES
  variant,          \* which sessionStart body is built in
  session,          \* SessionManager.session: 0 is null, else the session id
  startInProgress,  \* SessionManager.startInProgress
  idleTimer,        \* SessionManager.idleTimer: 0 is null, else the timer (named by the session it was made for)
  timers,           \* IdleTimer.timeout of every timer object: NotPending or ticks left
  lastUsedAt,       \* SessionState.lastUsedAt of every session object
  hookStop,         \* SessionState.hookStopFn of every session object is set
  browser,          \* the browser of every session: "none", "open" (launched),
                    \* "released" (stop() has attempted a release step), "closed"
  nextSid,          \* browsers launched so far
  now,              \* Date.now()
  task,             \* the async calls in flight, cut at their awaits
  ev,               \* the response produced by the last step, if it ended a call
  matchedStyles,    \* the answer of CSS.getMatchedStylesForNode for the queried node
  property,         \* the property findWinningDeclaration is asked about
  result,           \* what findWinningDeclaration returned: <<>> before the call
  info,             \* the CssProvenanceInfo getCssProvenance built for the node,
                    \* with the request flag and the engine's answer it was built from
  declaration,      \* the declaration declarationToSource is called on
  sheet,            \* where it stands and what the style engine answers about its stylesheet
  source,           \* the CssDeclarationSource it returned: <<>> before the call
  query,            \* the parameters of a getElement / getCssProvenance call and
                    \* the number of nodes its target matches in the document
  reply,            \* what the call returned or threw: <<>> before the call
  request,          \* the parameters of a call of a page tool (navigate,
                    \* pageInteract, getPageContent, the navigation of
                    \* sessionStart) and the configuration it runs under
  response,         \* what that call did and returned: <<>> before the call
  process           \* the server process: running, stopping after a shutdown
                    \* signal, exited, or what the runtime made of a shutdown
                    \* that was rejected

vars == <<variant, session, startInProgress, idleTimer, timers, lastUsedAt,
          hookStop, browser, nextSid, now, task, ev,
          matchedStyles, property, result, info,
          declaration, sheet, source, query, reply, request, response,
          process>>

sessionVars == <<variant, session, startInProgress, idleTimer, timers, lastUsedAt,
                 hookStop, browser, nextSid, now, task, ev, process>>

cascadeVars == <<matchedStyles, property, result, info>>

sourceVars == <<declaration, sheet, source>>

queryVars == <<query, reply>>

pageVars == <<request, response>>

mgr == <<session, startInProgress, idleTimer, timers, lastUsedAt>>

Free == [kind |-> "free", pc |-> "-", sid |-> 0, scen |-> "none",
         hook |-> FALSE, calls |-> 0, tool |-> "-", touched |-> FALSE,
         log |-> <<>>]

\* a response: the call it ends, its result code, the session the call held,
\* whether its touchSession() found a session, the hook invocations of a start;
\* of a stop: the steps it attempted, whether the session carried a hook
\* callback and whether its last step succeeded
NoEv == [op |-> "none", code |-> "none", sid |-> 0, touched |-> FALSE, calls |-> 0,
         log |-> <<>>, hook |-> FALSE, lastOk |-> TRUE]

Ev(op, code, sid, touched, calls) ==
  [NoEv EXCEPT !.op = op, !.code = code, !.sid = sid, !.touched = touched,
               !.calls = calls]

\* a node without any style: no inline declaration, no matched rule
NoStyles == [inlineStyle |-> <<>>, matchedCSSRules |-> <<>>]

\* the manager as constructed, under the sessionStart body v
SessionInit(v) ==
  /\ variant = v
  /\ session = 0
  /\ startInProgress = FALSE
  /\ idleTimer = 0
  /\ timers = [s \in Sids |-> NotPending]
  /\ lastUsedAt = [s \in Sids |-> 0]
  /\ hookStop = [s \in Sids |-> FALSE]
  /\ browser = [s \in Sids |-> "none"]
  /\ nextSid = 0
  /\ now = 0
  /\ task = [t \in TaskIds |-> Free]
  /\ ev = NoEv
  /\ process = "running"

\* no provenance query is modelled next to the session lifecycle
CascadeIdle ==
  /\ matchedStyles = NoStyles
  /\ property = "color"
  /\ result = <<>>
  /\ info = <<>>

\* an inline declaration: nothing of a stylesheet is asked about it
NoSheet == [styleSheetId |-> FALSE, range |-> <<>>, text |-> <<"throws">>,
            header |-> "throws"]

\* no declaration is being mapped to its source
SourceIdle ==
  /\ declaration = [origin |-> "inline", rule |-> 0, idx |-> 1,
                    property |-> [name |-> "color", important |-> FALSE,
                                  disabled |-> FALSE, parsedOk |-> TRUE]]
  /\ sheet = NoSheet
  /\ source = <<>>

\* no element query is modelled
QueryIdle ==
  /\ query = [tool |-> "getElement", property |-> "color", maxResults |-> <<>>,
              matches |-> 0, include |-> {},
              element |-> [nodeName |-> "DIV", role |-> <<>>, type |-> <<>>]]
  /\ reply = <<>>

\* no page tool call is modelled
PageIdle ==
  /\ request = [tool |-> "none"]
  /\ response = <<>>

Init ==
  /\ \E v \in Variants : SessionInit(v)
  /\ CascadeIdle
  /\ SourceIdle
  /\ QueryIdle
  /\ PageIdle

----------------------------------------------------------------------------
(* SessionManager *)

hasSession == session # 0

isStarting == startInProgress

\* setSession without the idleTimer.reset() of its last line
setSessionNoTimer(s) ==
  /\ session' = s
  /\ startInProgress' = FALSE
  /\ idleTimer' = s
  /\ timers' = timers

\* setSession(session): the new IdleTimer replaces the reference to the old
\* one without cancelling it
setSession(s) ==
  /\ session' = s
  /\ startInProgress' = FALSE
  /\ idleTimer' = s
  /\ timers' = [timers EXCEPT ![s] = IdleTicks]

\* The fields of a session object the manager has let go of are never read
\* again (stop() reads hookStopFn once more, at its end): the model forgets them.
Forget(f, s, v) == IF s # 0 THEN [f EXCEPT ![s] = v] ELSE f

\* IdleTimer.reset() on the manager's timer, as touchSession calls it
TouchedTimers ==
  IF session # 0 /\ idleTimer # 0
    THEN [timers EXCEPT ![idleTimer] = IdleTicks]
    ELSE timers

TouchedLastUsed ==
  IF session # 0 THEN [lastUsedAt EXCEPT ![session] = now] ELSE lastUsedAt

touchSession ==
  /\ timers' = TouchedTimers
  /\ lastUsedAt' = TouchedLastUsed

\* the flag the catch block of sessionStart leaves behind
CatchFlag(v) == IF v = "twoPhase" THEN TRUE ELSE FALSE

\* sessionStart line 15 of session-start.ts: only that body asks hasSession()
ChecksActive(v) == v = "twoPhase"

\* session-start.ts runs the hook once before the launch and once after it
HookBeforeLaunch(v) == v = "twoPhase"

\* part_000 navigates to params.url after setSession
NavigatesUrl(v) == v = "singlePhase"

----------------------------------------------------------------------------
(* Bookkeeping of the calls in flight *)

Done(t, e) ==
  /\ task' = [task EXCEPT ![t] = Free]
  /\ ev' = e

Goto(t, rec) ==
  /\ task' = [task EXCEPT ![t] = rec]
  /\ ev' = NoEv

At(t, kind, pcs) == task[t].kind = kind /\ task[t].pc \in pcs

----------------------------------------------------------------------------
(* sessionStart *)

\* the catch block: flag, rethrow; the stop callback a hook has returned to
\* this start (task[t].hook) is not called
StartFail(t, code, calls) ==
  /\ startInProgress' = CatchFlag(variant)
  /\ Done(t, [Ev("start", code, task[t].sid, FALSE, calls)
               EXCEPT !.hook = task[t].hook])

\* from the call to the first await
StartIssue(t, scen) ==
  /\ task[t] = Free
  /\ UNCHANGED <<cascadeVars, sourceVars, queryVars, pageVars, process, variant, session, idleTimer, timers, lastUsedAt, hookStop,
                 browser, nextSid, now>>
  /\ IF ChecksActive(variant) /\ hasSession
       THEN /\ Done(t, Ev("start", "ALREADY_STARTED", 0, FALSE, 0))
            /\ UNCHANGED startInProgress
     ELSE IF isStarting
       THEN /\ Done(t, Ev("start", "SESSION_START_IN_PROGRESS", 0, FALSE, 0))
            /\ UNCHANGED startInProgress
     ELSE IF scen = "unknown"
       THEN StartFail(t, "HOOKS_START_FAILED", 0)
     ELSE /\ startInProgress' = TRUE
          /\ Goto(t, [Free EXCEPT !.kind = "start", !.scen = scen,
                        !.pc = IF scen = "known" /\ HookBeforeLaunch(variant)
                                 THEN "load1" ELSE "launch"])

\* await loadHooksModule(...)
StartLoad(t) ==
  /\ At(t, "start", {"load1", "load2"})
  /\ UNCHANGED <<cascadeVars, sourceVars, queryVars, pageVars, process, variant, session, idleTimer, timers, lastUsedAt, hookStop,
                 browser, nextSid, now>>
  /\ \/ /\ Goto(t, [task[t] EXCEPT !.pc = IF task[t].pc = "load1" THEN "hook1" ELSE "hook2"])
        /\ UNCHANGED startInProgress
     \/ StartFail(t, "HOOKS_START_FAILED", task[t].calls)

\* the code after the last hook: setSession, then the optional navigation
\* (params.url is read here for the first time, so it is drawn here);
\* lu and hs are the session fields as the caller left them
Activate(t, calls, lu, hs) ==
  /\ setSession(task[t].sid)
  /\ lastUsedAt' = Forget(lu, session, 0)
  /\ hookStop' = Forget(hs, session, FALSE)
  /\ \E url \in {u \in BOOLEAN : u => NavigatesUrl(variant)} :
       IF url
         THEN Goto(t, [task[t] EXCEPT !.pc = "goto", !.calls = calls])
         ELSE Done(t, Ev("start", "ok", task[t].sid, FALSE, calls))

\* await executeHook(...) before the launch (session-start.ts lines 62-67)
StartHook1(t) ==
  /\ At(t, "start", {"hook1"})
  /\ UNCHANGED <<cascadeVars, sourceVars, queryVars, pageVars, process, variant, session, idleTimer, timers, lastUsedAt, hookStop,
                 browser, nextSid, now>>
  /\ \/ \E stop \in BOOLEAN :
          /\ Goto(t, [task[t] EXCEPT !.pc = "launch", !.hook = stop,
                                     !.calls = task[t].calls + 1])
          /\ UNCHANGED startInProgress
     \/ \E called \in {0, 1} :
          StartFail(t, "HOOKS_START_FAILED", task[t].calls + called)

\* await executeHook(...) with the page
StartHook2(t) ==
  /\ At(t, "start", {"hook2"})
  /\ UNCHANGED <<cascadeVars, sourceVars, queryVars, pageVars, process, variant, browser, nextSid, now>>
  /\ \/ \E stop \in BOOLEAN :
          Activate(t, task[t].calls + 1, lastUsedAt,
                   IF stop THEN [hookStop EXCEPT ![task[t].sid] = TRUE]
                           ELSE hookStop)
     \/ \E called \in {0, 1} :
          /\ StartFail(t, "HOOKS_START_FAILED", task[t].calls + called)
          /\ UNCHANGED <<session, idleTimer, timers, lastUsedAt, hookStop>>

\* createPlaywrightSession: await chromium.launch(...)
StartLaunch(t) ==
  /\ At(t, "start", {"launch"})
  /\ UNCHANGED <<cascadeVars, sourceVars, queryVars, pageVars, process, variant, session, idleTimer, timers, lastUsedAt, hookStop,
                 now>>
  /\ \/ /\ nextSid < MaxSessions
        /\ nextSid' = nextSid + 1
        /\ browser' = [browser EXCEPT ![nextSid + 1] = "open"]
        /\ Goto(t, [task[t] EXCEPT !.pc = "create", !.sid = nextSid + 1])
        /\ UNCHANGED startInProgress
     \/ /\ StartFail(t, "PLAYWRIGHT_LAUNCH_FAILED", task[t].calls)
        /\ UNCHANGED <<nextSid, browser>>

\* createPlaywrightSession: newContext, newPage, newCDPSession, DOM.enable,
\* CSS.enable (one step: nothing of the manager changes between them), then the
\* session object is built and sessionStart goes on to its next await
StartCreate(t) ==
  /\ At(t, "start", {"create"})
  /\ UNCHANGED <<cascadeVars, sourceVars, queryVars, pageVars, process, variant, browser, nextSid, now>>
  /\ \/ LET lu == [lastUsedAt EXCEPT ![task[t].sid] = now]
             hs == [hookStop EXCEPT ![task[t].sid] = task[t].hook]
         IN IF task[t].scen = "known"
              THEN /\ lastUsedAt' = lu
                   /\ hookStop' = hs
                   /\ Goto(t, [task[t] EXCEPT !.pc = "load2"])
                   /\ UNCHANGED <<session, startInProgress, idleTimer, timers>>
              ELSE Activate(t, task[t].calls, lu, hs)
     \/ /\ StartFail(t, "PLAYWRIGHT_LAUNCH_FAILED", task[t].calls)
        /\ UNCHANGED <<session, idleTimer, timers, lastUsedAt, hookStop>>

\* part_000 lines 118-131: await page.goto(params.url), failure only logged
StartGoto(t) ==
  /\ At(t, "start", {"goto"})
  /\ UNCHANGED <<cascadeVars, sourceVars, queryVars, pageVars, process, variant, session, startInProgress, idleTimer, timers,
                 lastUsedAt, hookStop, browser, nextSid, now>>
  /\ Done(t, Ev("start", "ok", task[t].sid, FALSE, task[t].calls))

----------------------------------------------------------------------------
(* SessionManager.stop *)

\* the resource-release steps of stop(), in the order of the source
TeardownOrder == <<"detach", "page", "context", "browser">>

IndexOf(step) == CHOOSE i \in 1..Len(TeardownOrder) : TeardownOrder[i] = step

\* stop() without its try/catch blocks: a failed step ends it
AfterStepAbort(step, ok, hasHook) ==
  IF step = "hook" \/ ~ok THEN "end"
  ELSE IF IndexOf(step) < Len(TeardownOrder) THEN TeardownOrder[IndexOf(step) + 1]
  ELSE IF hasHook THEN "hook"
  ELSE "end"

\* what stop() does after a step: the next release step, the hook callback
\* when the session carries one, or the end of stop(); a failed release step
\* is caught and ignored
AfterStep(step, ok, hasHook) ==
  IF step = "hook" THEN "end"
  ELSE IF IndexOf(step) < Len(TeardownOrder) THEN TeardownOrder[IndexOf(step) + 1]
  ELSE IF hasHook THEN "hook"
  ELSE "end"

\* stop() with the failure of the hook callback swallowed as well
StopResultSwallow(step, ok) == "ok"

\* how stop() ends after its last step
StopResult(step, ok) ==
  IF step = "hook" /\ ~ok THEN "HOOKS_STOP_FAILED" ELSE "ok"

\* the browser of a session after stop() has attempted a step on it
AfterRelease(b, step, ok) ==
  IF step = "browser" /\ ok THEN "closed"
  ELSE IF b = "open" THEN "released"
  ELSE b

\* IdleTimer.reset() in the place of IdleTimer.cancel()
CancelledTimersReset(tm) ==
  IF idleTimer # 0 THEN [tm EXCEPT ![idleTimer] = IdleTicks] ELSE tm

\* IdleTimer.cancel() on the manager's timer
CancelledTimers(tm) ==
  IF idleTimer # 0 THEN [tm EXCEPT ![idleTimer] = NotPending] ELSE tm

\* stop() from its call to its first await, run on behalf of task t;
\* tm is the timer table as the caller left it
stopPrologue(t, kind, tm) ==
  IF session = 0
    THEN /\ timers' = tm
         /\ UNCHANGED <<session, startInProgress, idleTimer, lastUsedAt>>
         /\ Done(t, Ev(kind, "ok", 0, FALSE, 0))
    ELSE /\ session' = 0
         /\ lastUsedAt' = Forget(lastUsedAt, session, 0)
         /\ startInProgress' = FALSE
         /\ timers' = CancelledTimers(tm)
         /\ idleTimer' = 0
         /\ Goto(t, [Free EXCEPT !.kind = kind, !.pc = TeardownOrder[1],
                                 !.sid = session])

\* sessionStop(): await sessionManager.stop()
StopIssue(t) ==
  /\ task[t] = Free
  /\ stopPrologue(t, "stop", timers)
  /\ UNCHANGED <<cascadeVars, sourceVars, queryVars, pageVars, process, variant, hookStop, browser, nextSid, now>>

\* the setTimeout callback of the timer made for session s:
\* this.timeout = null; void this.onIdle()
IdleFire(s) ==
  /\ timers[s] = 0
  /\ stopPrologue(BgTask(s), "idle", [timers EXCEPT ![s] = NotPending])
  /\ UNCHANGED <<cascadeVars, sourceVars, queryVars, pageVars, process, variant, hookStop, browser, nextSid, now>>

\* shutdown(): await sessionManager.stop(); process.exit(0).  When stop()
\* rejects, process.exit(0) is not reached and the rejection is unhandled:
\* the runtime ends the process ("crashed", the default of
\* --unhandled-rejections) or only warns ("survived")
AfterStop(code) ==
  IF code = "ok" THEN {"exited"} ELSE {"crashed", "survived"}

\* SIGINT / SIGTERM: shutdown() from its call to the first await of stop();
\* with no session stop() returns at once and the process exits
Signal ==
  /\ process = "running"
  /\ IF session = 0
       THEN /\ process' = "exited"
            /\ ev' = Ev("shutdown", "ok", 0, FALSE, 0)
            /\ UNCHANGED <<task, session, startInProgress, idleTimer, timers,
                           lastUsedAt>>
       ELSE /\ process' = "stopping"
            /\ stopPrologue(BgTask(session), "shutdown", timers)
  /\ UNCHANGED <<cascadeVars, sourceVars, queryVars, pageVars, variant, hookStop, browser, nextSid, now>>

\* one awaited step of stop(): detach, page.close, context.close,
\* browser.close, hookStopFn
StopStep(t) ==
  /\ task[t].kind \in {"stop", "idle", "shutdown"}
  /\ UNCHANGED <<cascadeVars, sourceVars, queryVars, pageVars, variant, session, startInProgress, idleTimer, timers,
                 lastUsedAt, nextSid, now>>
  /\ LET s == task[t].sid
         step == task[t].pc
     IN \E ok \in BOOLEAN :
          /\ browser' = [browser EXCEPT ![s] = AfterRelease(@, step, ok)]
          /\ LET next == AfterStep(step, ok, hookStop[s])
                 log == Append(task[t].log, step)
             IN IF next = "end"
                  THEN /\ Done(t, [Ev(task[t].kind, StopResult(step, ok), s, FALSE, 0)
                                     EXCEPT !.log = log, !.hook = hookStop[s],
                                            !.lastOk = ok])
                       /\ hookStop' = Forget(hookStop, s, FALSE)
                       /\ IF task[t].kind = "shutdown"
                            THEN process' \in AfterStop(StopResult(step, ok))
                            ELSE UNCHANGED process
                  ELSE /\ Goto(t, [task[t] EXCEPT !.pc = next, !.log = log])
                       /\ UNCHANGED <<hookStop, process>>

----------------------------------------------------------------------------
(* The page tools *)

\* the argument classes a tool tells apart before its first await
ToolArgs(tool) ==
  IF tool = "navigate" THEN {"plain", "blocked", "invalid"}
  ELSE IF tool = "getCssProvenance" THEN {"plain", "shorthand"}
  ELSE {"plain"}

\* tools whose success path calls sessionManager.touchSession()
\* (pageInteract returns without it)
Touches(tool) == tool # "pageInteract"

\* a driver or protocol call on session s can only succeed while stop() has
\* not begun to release the session's resources
DriverUp(s) == browser[s] = "open"

\* enum ErrorCode
ErrorCodes ==
  {"ALREADY_STARTED", "SESSION_START_IN_PROGRESS", "NO_ACTIVE_SESSION",
   "PLAYWRIGHT_LAUNCH_FAILED", "HOOKS_START_FAILED", "HOOKS_STOP_FAILED",
   "NAVIGATION_TIMEOUT", "NAVIGATION_BLOCKED_BY_POLICY", "ELEMENT_NOT_FOUND",
   "CSS_DOMAIN_UNAVAILABLE", "QUERY_TIMEOUT", "UNEXPECTED_ERROR"}

\* the error codes a failed driver call is mapped to by the tool's catch
FailCodes(tool) ==
  IF tool = "navigate" THEN {"NAVIGATION_TIMEOUT", "UNEXPECTED_ERROR"}
  ELSE IF tool \in {"getElement", "getCssProvenance"}
    THEN {"CSS_DOMAIN_UNAVAILABLE", "UNEXPECTED_ERROR"}
  ELSE IF tool = "evaluateJavaScript" THEN {"JS_EXECUTION_ERROR"}
  ELSE IF tool = "pageInteract" THEN {"ok_false"}
  ELSE {"UNEXPECTED_ERROR"}

\* whether this touchSession() call finds a session to touch
TouchLands == session # 0

\* getSession() with its error wrapped as an unexpected one
NoSessionErrorWrapped == "UNEXPECTED_ERROR"

\* the error getSession() throws when this.session is null
NoSessionError == "NO_ACTIVE_SESSION"

\* from the call to the first await: getSession(), the argument checks
ToolIssue(t, tool, arg) ==
  /\ task[t] = Free
  /\ UNCHANGED <<cascadeVars, sourceVars, queryVars, pageVars, process, variant, session, startInProgress, idleTimer, hookStop,
                 browser, nextSid, now>>
  /\ IF session = 0
       THEN /\ Done(t, Ev(tool, NoSessionError, 0, FALSE, 0))
            /\ UNCHANGED <<timers, lastUsedAt>>
     ELSE IF tool = "getConsoleLogs"
       THEN /\ touchSession
            /\ Done(t, Ev(tool, "ok", session, TouchLands, 0))
     ELSE IF arg = "blocked"
       THEN /\ Done(t, Ev(tool, "NAVIGATION_BLOCKED_BY_POLICY", session, FALSE, 0))
            /\ UNCHANGED <<timers, lastUsedAt>>
     ELSE IF arg \in {"invalid", "shorthand"}
       THEN /\ Done(t, Ev(tool, "UNEXPECTED_ERROR", session, FALSE, 0))
            /\ UNCHANGED <<timers, lastUsedAt>>
     ELSE /\ Goto(t, [Free EXCEPT !.kind = "tool", !.tool = tool, !.sid = session,
                        !.pc = IF tool \in {"getElement", "getCssProvenance"}
                                 THEN "resolve" ELSE "call"])
          /\ UNCHANGED <<timers, lastUsedAt>>

\* getElement / getCssProvenance: await resolveElementTargets(...), the
\* empty check, touchSession()
ToolResolve(t) ==
  /\ At(t, "tool", {"resolve"})
  /\ UNCHANGED <<cascadeVars, sourceVars, queryVars, pageVars, process, variant, session, startInProgress, idleTimer, hookStop,
                 browser, nextSid, now>>
  /\ \/ /\ DriverUp(task[t].sid)
        /\ \/ /\ touchSession
              /\ Goto(t, [task[t] EXCEPT !.pc = "nodes", !.touched = TouchLands])
           \/ /\ Done(t, Ev(task[t].tool, "ELEMENT_NOT_FOUND", task[t].sid, FALSE, 0))
              /\ UNCHANGED <<timers, lastUsedAt>>
     \/ /\ Done(t, Ev(task[t].tool, "UNEXPECTED_ERROR", task[t].sid, FALSE, 0))
        /\ UNCHANGED <<timers, lastUsedAt>>

\* getElement / getCssProvenance: the awaits of the per-node loop, the return
ToolNodes(t) ==
  /\ At(t, "tool", {"nodes"})
  /\ UNCHANGED <<cascadeVars, sourceVars, queryVars, pageVars, process, variant, session, startInProgress, idleTimer, timers,
                 lastUsedAt, hookStop, browser, nextSid, now>>
  /\ \/ /\ DriverUp(task[t].sid)
        /\ Done(t, Ev(task[t].tool, "ok", task[t].sid, task[t].touched, 0))
     \/ \E code \in FailCodes(task[t].tool) :
          Done(t, Ev(task[t].tool, code, task[t].sid, task[t].touched, 0))

\* the other tools: the awaited driver call, touchSession(), the return
ToolCall(t) ==
  /\ At(t, "tool", {"call"})
  /\ UNCHANGED <<cascadeVars, sourceVars, queryVars, pageVars, process, variant, session, startInProgress, idleTimer, hookStop,
                 browser, nextSid, now>>
  /\ \/ /\ DriverUp(task[t].sid)
        /\ IF Touches(task[t].tool)
             THEN /\ touchSession
                  /\ Done(t, Ev(task[t].tool, "ok", task[t].sid, TouchLands, 0))
             ELSE /\ UNCHANGED <<timers, lastUsedAt>>
                  /\ Done(t, Ev(task[t].tool, "ok", task[t].sid, FALSE, 0))
     \/ /\ \E code \in FailCodes(task[t].tool) :
             Done(t, Ev(task[t].tool, code, task[t].sid, FALSE, 0))
        /\ UNCHANGED <<timers, lastUsedAt>>

----------------------------------------------------------------------------
(* Time *)

Min(a, b) == IF a < b THEN a ELSE b

\* one tick of the clock: every pending timeout comes one tick closer; a
\* timeout that is due fires before more time passes
Tick ==
  /\ \A s \in Sids : timers[s] # 0
  /\ (\E s \in Sids : timers[s] > 0) \/ now < MaxClock
  /\ timers' = [s \in Sids |-> IF timers[s] > 0 THEN timers[s] - 1 ELSE timers[s]]
  /\ now' = Min(now + 1, MaxClock)
  /\ ev' = NoEv
  /\ UNCHANGED <<cascadeVars, sourceVars, queryVars, pageVars, process, variant, session, startInProgress, idleTimer, lastUsedAt,
                 hookStop, browser, nextSid, task>>

----------------------------------------------------------------------------
(* The system *)

Scenarios == {"none", "known", "unknown"}

\* a request arrives on slot t; page-tool calls meet only in touchSession(),
\* so at most one of them is kept in flight, next to any start or stop
Issue(t) ==
  \/ \E scen \in Scenarios : StartIssue(t, scen)
  \/ StopIssue(t)
  \/ /\ \A u \in Reqs : task[u].kind # "tool"
     /\ \E tool \in Tools : \E arg \in ToolArgs(tool) : ToolIssue(t, tool, arg)

\* a startSession or a stop() in flight resumes after an await
ResumeSession(t) ==
  \/ StartLoad(t)
  \/ StartHook1(t)
  \/ StartLaunch(t)
  \/ StartCreate(t)
  \/ StartHook2(t)
  \/ StartGoto(t)
  \/ StopStep(t)

\* a page tool in flight resumes after an await
ResumeTool(t) ==
  \/ ToolResolve(t)
  \/ ToolNodes(t)
  \/ ToolCall(t)

Background ==
  \/ \E t \in TaskIds : ResumeSession(t)
  \/ \E t \in Reqs : ResumeTool(t)
  \/ \E s \in Sids : IdleFire(s)
  \/ Tick

\* request slots are anonymous: a request takes the lowest free one
LowestFree(t) == task[t] = Free /\ \A u \in Reqs : u < t => task[u] # Free

\* requests may overlap (the handler of the server is async and not serialised)
Next ==
  \/ \E t \in Reqs : LowestFree(t) /\ Issue(t)
  \/ Background

Spec == Init /\ [][Next]_vars

\* the request/response discipline: a request is issued only when the
\* previous one has been answered; timers still fire on their own
NextSeq ==
  \/ (\A t \in Reqs : task[t] = Free) /\ Issue(1)
  \/ Background

SpecSeq == Init /\ [][NextSeq]_vars

\* the system left alone by the page tools: requests come one at a time, and
\* a page tool is called only while no session is active, so that no call
\* touches a session; timers fire when due and time goes on
NextIdle ==
  \/ /\ \A t \in Reqs : task[t] = Free
     /\ \/ \E scen \in Scenarios : StartIssue(1, scen)
        \/ StopIssue(1)
        \/ session = 0 /\ \E tool \in Tools : \E arg \in ToolArgs(tool) : ToolIssue(1, tool, arg)
  \/ \E t \in TaskIds : ResumeSession(t)
  \/ \E s \in Sids : IdleFire(s)
  \/ Tick

SpecIdle ==
  /\ Init
  /\ [][NextIdle]_vars
  /\ WF_vars(Tick)
  /\ \A s \in Sids : WF_vars(IdleFire(s))

\* the server under a shutdown signal: requests come one at a time until
\* the process is gone
NextShutdown ==
  \/ process \notin {"exited", "crashed"} /\ NextSeq
  \/ Signal

SpecShutdown == Init /\ [][NextShutdown]_vars

TypeOK ==
  /\ variant \in Variants
  /\ session \in 0..MaxSessions
  /\ startInProgress \in BOOLEAN
  /\ idleTimer \in 0..MaxSessions
  /\ \A s \in Sids : timers[s] \in NotPending..IdleTicks
  /\ now \in 0..MaxClock
  /\ nextSid \in 0..MaxSessions

----------------------------------------------------------------------------
(* The cascade engine *)

\* the property names the style engine reports declarations for
PropNames == {"color", "width"}

\* CDPProperty: name, important, disabled, parsedOk (an absent parsedOk
\* reads as TRUE); its value text is told apart from the text of every other
\* declaration by where the declaration stands. The declarations that did
\* not parse are enumerated enabled and without !important.
CssProps ==
  [name : PropNames, important : BOOLEAN, disabled : BOOLEAN,
   parsedOk : {TRUE}]
  \cup
  [name : PropNames, important : {FALSE}, disabled : {FALSE},
   parsedOk : {FALSE}]

\* style.cssProperties: the lists of at most n declarations
PropLists(n) == UNION {[1..k -> CssProps] : k \in 0..n}

\* matchedCSSRules: the lists of at most r rules (a rule is the cssProperties
\* of its style) holding at most n declarations together
RECURSIVE RuleLists(_, _)
RuleLists(r, n) ==
  IF r = 0 THEN {<<>>}
  ELSE {<<>>} \cup
       UNION {{<<ps>> \o rest : rest \in RuleLists(r - 1, n - Len(ps))} :
                ps \in PropLists(n)}

\* the answers of CSS.getMatchedStylesForNode: an inline style and the matched
\* rules in the order the style engine reports them
MatchedStylesAnswers ==
  UNION {{[inlineStyle |-> i, matchedCSSRules |-> rs] :
            rs \in RuleLists(MaxRules, MaxProps - Len(i))} :
           i \in PropLists(MaxProps)}

\* an entry of allDeclarations: the property and the rule it stands in
\* (rule 0 is the wrapper {origin: "inline"} made for the inline style)
Declaration(origin, rule, idx, prop) ==
  [origin |-> origin, rule |-> rule, idx |-> idx, property |-> prop]

\* the test of the two collection loops without its disabled part
TakesDisabled(prop, name) == prop.name = name

\* the test of the two collection loops
Takes(prop, name) == prop.name = name /\ ~prop.disabled

\* the loop over matchedStyles.inlineStyle.cssProperties
InlineDeclarations(ms, name) ==
  SelectSeq([j \in 1..Len(ms.inlineStyle) |->
               Declaration("inline", 0, j, ms.inlineStyle[j])],
            LAMBDA d : Takes(d.property, name))

\* the inner loop over rule.style.cssProperties of the i-th matched rule
RuleDeclarations(ms, i, name) ==
  SelectSeq([j \in 1..Len(ms.matchedCSSRules[i]) |->
               Declaration("regular", i, j, ms.matchedCSSRules[i][j])],
            LAMBDA d : Takes(d.property, name))

\* the outer loop over matchedStyles.matchedCSSRules, from the i-th rule on
RECURSIVE RulesDeclarations(_, _, _)
RulesDeclarations(ms, i, name) ==
  IF i > Len(ms.matchedCSSRules) THEN <<>>
  ELSE RuleDeclarations(ms, i, name) \o RulesDeclarations(ms, i + 1, name)

allDeclarations(ms, name) ==
  InlineDeclarations(ms, name) \o RulesDeclarations(ms, 1, name)

\* "origin" in d.rule && d.rule.origin === "inline"
isInline(d) == d.origin = "inline"

isImportant(d) == d.property.important

\* the first element in the place of the last
First(seq) == seq[1]

Last(seq) == seq[Len(seq)]

\* the if-chain of the source with the second and the third branch exchanged
PickWinnerInlineFirst(inlineImportant, stylesheetImportant, inlineNormal, stylesheetNormal) ==
  IF Len(inlineImportant) > 0 THEN Last(inlineImportant)
  ELSE IF Len(inlineNormal) > 0 THEN Last(inlineNormal)
  ELSE IF Len(stylesheetImportant) > 0 THEN Last(stylesheetImportant)
  ELSE Last(stylesheetNormal)

\* "Pick winner by cascade priority"
PickWinner(inlineImportant, stylesheetImportant, inlineNormal, stylesheetNormal) ==
  IF Len(inlineImportant) > 0 THEN Last(inlineImportant)
  ELSE IF Len(stylesheetImportant) > 0 THEN Last(stylesheetImportant)
  ELSE IF Len(inlineNormal) > 0 THEN Last(inlineNormal)
  ELSE Last(stylesheetNormal)

\* property.value of the declaration at place idx of rule
ValueAt(rule, idx) == <<rule, idx>>

\* rule.selectorList.text of the i-th matched rule
SelectorOf(i) == i

\* declarationToSource: source, value, important, and the selector of a
\* stylesheet declaration (an absent field is <<>>)
declarationToSource(d) ==
  [source |-> IF isInline(d) THEN "inline" ELSE "stylesheet",
   value |-> ValueAt(d.rule, d.idx),
   important |-> d.property.important,
   selector |-> IF isInline(d) THEN <<>> ELSE <<SelectorOf(d.rule)>>]

\* the return value {}: neither winner nor contributors
NoDeclaration == [error |-> "none", winner |-> <<>>, contributors |-> <<>>]

\* findWinningDeclaration after getMatchedStyles has answered ms
findWinningDeclaration(ms, name) ==
  LET all == allDeclarations(ms, name)
      inlineDeclarations == SelectSeq(all, isInline)
      stylesheetDeclarations == SelectSeq(all, LAMBDA d : ~isInline(d))
      inlineImportant == SelectSeq(inlineDeclarations, isImportant)
      stylesheetImportant == SelectSeq(stylesheetDeclarations, isImportant)
      inlineNormal == SelectSeq(inlineDeclarations, LAMBDA d : ~isImportant(d))
      stylesheetNormal == SelectSeq(stylesheetDeclarations, LAMBDA d : ~isImportant(d))
      winner == PickWinner(inlineImportant, stylesheetImportant,
                           inlineNormal, stylesheetNormal)
      others == SelectSeq(all, LAMBDA d : d # winner)
  IN IF Len(all) = 0
       THEN NoDeclaration
       ELSE [error |-> "none",
             winner |-> <<declarationToSource(winner)>>,
             contributors |-> <<[k \in 1..Len(others) |-> declarationToSource(others[k])]>>]

\* findWinningDeclaration returns
CascadeResolve ==
  /\ result = <<>>
  /\ info = <<>>
  /\ result' = <<findWinningDeclaration(matchedStyles, property)>>
  /\ UNCHANGED <<sessionVars, sourceVars, queryVars, pageVars, matchedStyles, property, info>>

\* getMatchedStyles throws: findWinningDeclaration rejects with its error
CascadeFail ==
  /\ result = <<>>
  /\ info = <<>>
  /\ result' = <<[NoDeclaration EXCEPT !.error = "CSS_DOMAIN_UNAVAILABLE"]>>
  /\ UNCHANGED <<sessionVars, sourceVars, queryVars, pageVars, matchedStyles, property, info>>

\* what CSS.getComputedStyleForNode reports for the property: no entry, an
\* empty value, a value
ComputedAnswers == {"absent", "", "red"}

\* computed[params.property] || null
computedValue(cv) == IF cv \in {"absent", ""} THEN <<>> ELSE <<cv>>

\* the loop body of getCssProvenance with the contributors attached whether
\* or not they were asked for
provenanceInfoAlways(name, cv, fw, includeContributors) ==
  [error |-> "none",
   property |-> name,
   computedValue |-> computedValue(cv),
   winner |-> fw.winner,
   contributors |-> IF Len(fw.contributors) = 1 /\ Len(fw.contributors[1]) > 0
                      THEN fw.contributors ELSE <<>>]

\* the loop body of getCssProvenance after its two awaits: the
\* CssProvenanceInfo built from the computed style cv and the answer fw of
\* findWinningDeclaration
provenanceInfo(name, cv, fw, includeContributors) ==
  [error |-> "none",
   property |-> name,
   computedValue |-> computedValue(cv),
   winner |-> fw.winner,
   contributors |-> IF includeContributors /\ Len(fw.contributors) = 1
                         /\ Len(fw.contributors[1]) > 0
                      THEN fw.contributors ELSE <<>>]

\* getCssProvenance pushes the info of the node; params.includeContributors
\* and the computed style the engine had reported are read here
ProvenanceNode ==
  /\ result # <<>>
  /\ result[1].error = "none"
  /\ info = <<>>
  /\ \E inc \in BOOLEAN : \E cv \in ComputedAnswers :
       info' = <<[includeContributors |-> inc, computed |-> cv,
                  record |-> provenanceInfo(property, cv, result[1], inc)]>>
  /\ UNCHANGED <<sessionVars, sourceVars, queryVars, pageVars, matchedStyles, property, result>>

\* getComputedStyles throws before findWinningDeclaration is called
ComputedFail ==
  /\ result = <<>>
  /\ info = <<>>
  /\ \E inc \in BOOLEAN :
       info' = <<[includeContributors |-> inc, computed |-> "absent",
                  record |-> [provenanceInfo(property, "absent", NoDeclaration, inc)
                                EXCEPT !.error = "CSS_DOMAIN_UNAVAILABLE"]]>>
  /\ UNCHANGED <<sessionVars, sourceVars, queryVars, pageVars, matchedStyles, property, result>>

\* one call of findWinningDeclaration on any answer of the style engine
CascadeInit ==
  /\ SessionInit("twoPhase")
  /\ matchedStyles \in MatchedStylesAnswers
  /\ property \in PropNames
  /\ result = <<>>
  /\ info = <<>>
  /\ SourceIdle
  /\ QueryIdle
  /\ PageIdle

CascadeNext ==
  \/ CascadeResolve
  \/ CascadeFail
  \/ ProvenanceNode
  \/ ComputedFail

CascadeSpec == CascadeInit /\ [][CascadeNext]_vars

----------------------------------------------------------------------------
(* The declaration source resolver *)

\* the lines a stylesheet text is made of: empty, blank, code
LineTexts == {"", " ", "a"}

\* what CSS.getStyleSheetText answers: it throws, or a text (as the lines
\* text.split("\n") cuts it into; the empty text is one empty line)
SheetTexts == {<<"throws">>} \cup UNION {[1..k -> LineTexts] : k \in 1..MaxLines}

\* property.range: absent, or startLine and startColumn
Ranges == {<<>>} \cup {<<[startLine |-> l, startColumn |-> c]>> :
                          l \in 0..MaxLines, c \in {0, 1}}

\* rule.style.styleSheetId is set, property.range, the answer to the text
\* fetch, the answer to the second CSS.getStyleSheetText: it throws, it
\* carries no header.sourceURL, it carries one
Sheets ==
  [styleSheetId : BOOLEAN, range : Ranges, text : SheetTexts,
   header : {"throws", "none", "url"}]

\* getStyleSheetText: the text, null (<<>>) when the fetch throws
getStyleSheetText(sh) == IF sh.text = <<"throws">> THEN <<>> ELSE sh.text

\* the truthiness of getStyleSheetText's answer: null and "" are falsy
HasText(text) == text # <<>> /\ text # <<"">>

\* extractSnippet(text, line, column) with contextLines = 0
extractSnippet(text, line) ==
  IF line < 0 \/ line >= Len(text) THEN "" ELSE text[line + 1]

\* String.prototype.trim on a line
Trim(l) == IF l = " " THEN "" ELSE l

Nowhere == [stylesheetUrl |-> <<>>, line |-> <<>>, column |-> <<>>, snippet |-> <<>>]

\* the location fields with one try block around both fetches: a failure of
\* the second fetch discards what the first one gave
sourceLocationOneTry(d, sh) ==
  IF isInline(d) \/ ~sh.styleSheetId \/ sh.header = "throws" THEN Nowhere
  ELSE LET text == getStyleSheetText(sh)
           located == sh.range # <<>> /\ HasText(text)
       IN [stylesheetUrl |-> IF sh.header = "url" THEN <<"url">> ELSE <<>>,
           line |-> IF located THEN <<sh.range[1].startLine>> ELSE <<>>,
           column |-> IF located THEN <<sh.range[1].startColumn>> ELSE <<>>,
           snippet |-> IF located /\ extractSnippet(text, sh.range[1].startLine) # ""
                         THEN <<Trim(extractSnippet(text, sh.range[1].startLine))>>
                         ELSE <<>>]

\* the location fields looked up for an inline declaration as well
sourceLocationAnyOrigin(d, sh) ==
  IF ~sh.styleSheetId THEN Nowhere
  ELSE LET text == getStyleSheetText(sh)
           located == sh.range # <<>> /\ HasText(text)
       IN [stylesheetUrl |-> IF sh.header = "url" THEN <<"url">> ELSE <<>>,
           line |-> IF located THEN <<sh.range[1].startLine>> ELSE <<>>,
           column |-> IF located THEN <<sh.range[1].startColumn>> ELSE <<>>,
           snippet |-> IF located /\ extractSnippet(text, sh.range[1].startLine) # ""
                         THEN <<Trim(extractSnippet(text, sh.range[1].startLine))>>
                         ELSE <<>>]

\* declarationToSource, "Add stylesheet URL and location": the fields
\* stylesheetUrl, line, column, snippet (an absent field is <<>>)
sourceLocation(d, sh) ==
  IF isInline(d) \/ ~sh.styleSheetId THEN Nowhere
  ELSE LET text == getStyleSheetText(sh)
           located == sh.range # <<>> /\ HasText(text)
       IN [stylesheetUrl |-> IF sh.header = "url" THEN <<"url">> ELSE <<>>,
           line |-> IF located THEN <<sh.range[1].startLine>> ELSE <<>>,
           column |-> IF located THEN <<sh.range[1].startColumn>> ELSE <<>>,
           snippet |-> IF located /\ extractSnippet(text, sh.range[1].startLine) # ""
                         THEN <<Trim(extractSnippet(text, sh.range[1].startLine))>>
                         ELSE <<>>]

\* declarationToSource returns: the fields of declarationToSource(d) and the
\* location fields
SourceResolve ==
  /\ source = <<>>
  /\ source' = <<[record |-> declarationToSource(declaration),
                  location |-> sourceLocation(declaration, sheet)]>>
  /\ UNCHANGED <<sessionVars, cascadeVars, queryVars, pageVars, declaration, sheet>>

\* one call of declarationToSource on an inline declaration or on a
\* declaration of the first matched rule
SourceInit ==
  /\ SessionInit("twoPhase")
  /\ CascadeIdle
  /\ \E inline \in BOOLEAN : \E important \in BOOLEAN :
       declaration = Declaration(IF inline THEN "inline" ELSE "regular",
                                 IF inline THEN 0 ELSE 1, 1,
                                 [name |-> "color", important |-> important,
                                  disabled |-> FALSE, parsedOk |-> TRUE])
  /\ sheet \in Sheets
  /\ source = <<>>
  /\ QueryIdle
  /\ PageIdle

SourceNext == SourceResolve

SourceSpec == SourceInit /\ [][SourceNext]_vars

----------------------------------------------------------------------------
\* Element queries: getCssProvenance and getElement (src/unnamed/part_002)
\* over resolveElementTargets and the per-node accessors (src/src/cdp/dom.ts,
\* src/src/cdp/css.ts), as run with an active session.  The nodes a target
\* matches are numbered 1..matches in document order.

\* the cap on the number of nodes a query resolves
MaxResultsCap == 50

\* the number of nodes resolved when maxResults is omitted
DefaultMaxResults == 10

\* the keys of SHORTHAND_TO_LONGHAND
ShorthandTable ==
  {"margin", "padding", "border", "border-top", "border-right",
   "border-bottom", "border-left", "border-width", "border-style",
   "border-color", "background", "font", "flex"}

\* names every object inherits, which the `in` operator also finds
InheritedKeys == {"toString"}

\* a shorthand table that lists the box shorthands only
isShorthandBoxOnly(name) == name \in {"margin", "padding"}

\* isShorthand: property in SHORTHAND_TO_LONGHAND
isShorthand(name) == name \in ShorthandTable \cup InheritedKeys

\* the property names asked about
QueryProperties == ShorthandTable \cup InheritedKeys \cup {"color"}

\* the facts a getElement call may ask for beside the node name
Facts == {"attributes", "boxModel", "computed", "role"}

\* the elements of the page a target matches: the node name, the role
\* attribute and the type attribute when the element carries them
Elements ==
  [nodeName : {"DIV", "BUTTON", "INPUT"}, role : {<<>>, <<"tab">>},
   type : {<<>>, <<"checkbox">>}]

\* an element without attributes
PlainElement == [nodeName |-> "DIV", role |-> <<>>, type |-> <<>>]

\* the maxResults parameter: omitted, or a number (the schema sets no minimum)
MaxResultsArgs ==
  {<<>>} \cup {<<m>> : m \in (0 - MaxMatches)..MaxMatches
                          \cup {MaxResultsCap, MaxResultsCap + 1}}

\* how many nodes of the document the target matches
MatchCounts ==
  0..MaxMatches \cup {DefaultMaxResults + 1, MaxResultsCap + 1}

\* the calls: getCssProvenance, getElement without the role, and getElement
\* with the role on each kind of element
Queries ==
  [tool : {"getCssProvenance"}, property : QueryProperties,
   maxResults : MaxResultsArgs, matches : MatchCounts, include : {{}},
   element : {PlainElement}]
  \cup
  [tool : {"getElement"}, property : {"color"},
   maxResults : MaxResultsArgs, matches : MatchCounts,
   include : SUBSET (Facts \ {"role"}), element : {PlainElement}]
  \cup
  [tool : {"getElement"}, property : {"color"},
   maxResults : {<<>>}, matches : 0..MaxMatches,
   include : {f \cup {"role"} : f \in SUBSET (Facts \ {"role"})},
   element : Elements]

\* Math.min(params.maxResults ?? 10, 50)
maxResultsOf(q) ==
  Min(IF q.maxResults = <<>> THEN DefaultMaxResults ELSE q.maxResults[1],
      MaxResultsCap)

\* Array.prototype.slice(0, end): a negative end counts from the end of the
\* array
slice(nodeIds, end) ==
  IF end >= Len(nodeIds) THEN nodeIds
  ELSE IF end >= 0 THEN SubSeq(nodeIds, 1, end)
  ELSE IF Len(nodeIds) + end > 0 THEN SubSeq(nodeIds, 1, Len(nodeIds) + end)
  ELSE <<>>

\* the node ids DOM.querySelectorAll answers, in document order
querySelectorAll(q) == [k \in 1..q.matches |-> k]

\* resolveElementTargets when the protocol answers
resolveElementTargets(q) == slice(querySelectorAll(q), maxResultsOf(q))

\* the protocol calls made per node, by the accessor that makes them
Accessors(q) ==
  IF q.tool = "getElement"
    THEN {"nodeName"} \cup (q.include \ {"role"})
    ELSE {"computed", "matched"}

\* what String(err) of a failed protocol call reads
FailureTexts == {"Error", "Timeout"}

\* the behaviour of the protocol during one call: whether target resolution
\* answers, which accessors fail on which one of the resolved nodes, and
\* the text of the failure
Protocols(q) ==
  {p \in [resolve : {"ok", "throws"},
          node : 0..Min(MaxMatches, Len(resolveElementTargets(q))),
          failing : SUBSET Accessors(q),
          text : FailureTexts] :
     /\ p.resolve = "throws" => p.node = 0
     /\ p.node = 0 <=> p.failing = {}
     /\ (p.resolve = "ok" /\ p.node = 0) => p.text = "Error"}

Fails(p, k, accessor) == p.node = k /\ accessor \in p.failing

\* an error thrown out of the handler
Thrown(q, p, code, message, sent) ==
  [query |-> q, protocol |-> p, code |-> code, message |-> message,
   sent |-> sent, matchCount |-> 0, results |-> <<>>]

\* getNodeName: undefined when DOM.describeNode fails
getNodeName(q, p, k) ==
  IF Fails(p, k, "nodeName") THEN <<>> ELSE <<q.element.nodeName>>

\* getElementAttributes: {} when DOM.getAttributes fails
getElementAttributes(q, p, k) ==
  IF Fails(p, k, "attributes") THEN <<[role |-> <<>>, type |-> <<>>]>>
  ELSE <<[role |-> q.element.role, type |-> q.element.type]>>

\* String.prototype.toLowerCase on the node names and types of the model
toLowerCase(text) ==
  CASE text = "DIV" -> "div"
    [] text = "BUTTON" -> "button"
    [] text = "INPUT" -> "input"
    [] OTHER -> text

\* inputRoleMap
inputRoleMap ==
  [button |-> "button", checkbox |-> "checkbox", radio |-> "radio",
   text |-> "textbox", email |-> "textbox", password |-> "textbox",
   search |-> "searchbox", tel |-> "textbox", url |-> "textbox",
   number |-> "spinbutton", range |-> "slider"]

\* inferInputRole(type)
inferInputRole(type) ==
  IF type = <<>> THEN "textbox"
  ELSE IF toLowerCase(type[1]) \in DOMAIN inputRoleMap
    THEN inputRoleMap[toLowerCase(type[1])]
  ELSE "textbox"

\* roleMap, its input entry computed from the attributes at hand
roleMap(attributes) ==
  [a |-> "link", button |-> "button",
   input |-> inferInputRole(IF attributes = <<>> THEN <<>>
                            ELSE attributes[1].type),
   select |-> "combobox", textarea |-> "textbox", img |-> "img",
   nav |-> "navigation", main |-> "main", header |-> "banner",
   footer |-> "contentinfo", section |-> "region", article |-> "article",
   aside |-> "complementary", form |-> "form", table |-> "table",
   ul |-> "list", ol |-> "list", li |-> "listitem", h1 |-> "heading",
   h2 |-> "heading", h3 |-> "heading", h4 |-> "heading", h5 |-> "heading",
   h6 |-> "heading"]

\* inferRole(nodeName, attributes)
inferRole(nodeName, attributes) ==
  IF nodeName = <<>> THEN <<>>
  ELSE IF toLowerCase(nodeName[1]) \in DOMAIN roleMap(attributes)
    THEN <<roleMap(attributes)[toLowerCase(nodeName[1])]>>
  ELSE <<>>

\* getElement lines 210-218: the role attribute of info.attributes when
\* there is one, the inferred role otherwise
roleOf(nodeName, attributes) ==
  IF attributes # <<>> /\ attributes[1].role # <<>> THEN attributes[1].role
  ELSE inferRole(nodeName, attributes)

\* getElementBoxModel: null when DOM.getBoxModel fails
getElementBoxModel(p, k) ==
  IF Fails(p, k, "boxModel") THEN <<"null">> ELSE <<"box">>

\* getComputedStyles throws CSS_DOMAIN_UNAVAILABLE when
\* CSS.getComputedStyleForNode fails: the nodes on which the handler's loop
\* is left by that throw
computedStylesThrow(q, p, nodeIds) ==
  {k \in 1..Len(nodeIds) : "computed" \in Accessors(q) /\ Fails(p, k, "computed")}

\* getMatchedStyles throws CSS_DOMAIN_UNAVAILABLE when
\* CSS.getMatchedStylesForNode fails
matchedStylesThrow(q, p, nodeIds) ==
  {k \in 1..Len(nodeIds) : "matched" \in Accessors(q) /\ Fails(p, k, "matched")}

\* one ElementInfo of getElement
ElementInfo(q, p, k, nodeId) ==
  LET nodeName   == getNodeName(q, p, k)
      attributes == IF "attributes" \in q.include
                      THEN getElementAttributes(q, p, k) ELSE <<>>
  IN [node |-> nodeId, exists |-> TRUE,
      nodeName |-> nodeName,
      attributes |-> attributes,
      boxModel |-> IF "boxModel" \in q.include
                     THEN getElementBoxModel(p, k) ELSE <<>>,
      computed |-> IF "computed" \in q.include THEN <<"styles">> ELSE <<>>,
      role |-> IF "role" \in q.include THEN roleOf(nodeName, attributes)
               ELSE <<>>]

\* one CssProvenanceInfo of getCssProvenance, its content left to the
\* winner selection above
CssProvenanceInfo(q, p, k, nodeId) ==
  [node |-> nodeId, exists |-> TRUE, nodeName |-> <<>>, attributes |-> <<>>,
   boxModel |-> <<>>, computed |-> <<"styles">>, role |-> <<>>]

\* the protocol commands sent for the first n nodes of the loop
PerNodeCommands(q, n) ==
  IF n = 0 THEN {}
  ELSE IF q.tool = "getElement"
    THEN {"DOM.describeNode"}
         \cup (IF "attributes" \in q.include THEN {"DOM.getAttributes"} ELSE {})
         \cup (IF "boxModel" \in q.include THEN {"DOM.getBoxModel"} ELSE {})
         \cup (IF "computed" \in q.include
                 THEN {"CSS.getComputedStyleForNode"} ELSE {})
    ELSE {"CSS.getComputedStyleForNode", "CSS.getMatchedStylesForNode"}

ResolveCommands == {"DOM.getDocument", "DOM.querySelectorAll"}

\* createError(code, ...): a DevToolsError
createError(code, text) == [devtools |-> TRUE, code |-> code, text |-> text]

\* the handler's catch: a DevToolsError is rethrown, any other error is
\* mapped by its text
caught(err) ==
  IF err.devtools THEN err.code
  ELSE IF err.text = "Timeout" THEN "QUERY_TIMEOUT"
  ELSE "UNEXPECTED_ERROR"

\* a handler that takes an empty resolution for an answer
NoNodesIgnored(nodeIds) == FALSE

\* nodeIds.length === 0
NoNodes(nodeIds) == Len(nodeIds) = 0

\* the handler from target resolution on: the try block and its catch
queryBody(q, p) ==
  LET nodeIds == resolveElementTargets(q)
      aborts  == computedStylesThrow(q, p, nodeIds)
                   \cup matchedStylesThrow(q, p, nodeIds)
  IN  IF p.resolve = "throws"
        THEN Thrown(q, p, caught(createError("UNEXPECTED_ERROR", p.text)),
                    "resolve", {"DOM.getDocument"})
      ELSE IF NoNodes(nodeIds)
        THEN Thrown(q, p, caught(createError("ELEMENT_NOT_FOUND", "")),
                    "no elements", ResolveCommands)
      ELSE IF aborts # {}
        THEN Thrown(q, p, caught(createError("CSS_DOMAIN_UNAVAILABLE", p.text)),
                    "styles",
                    ResolveCommands \cup PerNodeCommands(q, Len(nodeIds)))
      ELSE [query |-> q, protocol |-> p, code |-> "ok", message |-> "",
            sent |-> ResolveCommands \cup PerNodeCommands(q, Len(nodeIds)),
            matchCount |-> Len(nodeIds),
            results |->
              [k \in 1..Len(nodeIds) |->
                 IF q.tool = "getElement"
                   THEN ElementInfo(q, p, k, nodeIds[k])
                   ELSE CssProvenanceInfo(q, p, k, nodeIds[k])]]

\* getCssProvenance rejects a shorthand before its try block
QueryReject ==
  /\ reply = <<>>
  /\ query.tool = "getCssProvenance"
  /\ isShorthand(query.property)
  /\ \E p \in Protocols(query) :
       reply' = <<Thrown(query, p, "UNEXPECTED_ERROR", "shorthand", {})>>
  /\ UNCHANGED <<sessionVars, cascadeVars, sourceVars, pageVars, query>>

\* a handler whose protocol commands detach the last matched node
pageAfterDetaching(q) ==
  [q EXCEPT !.matches = IF @ > 0 THEN @ - 1 ELSE 0]

\* the document after the handler's protocol commands: DOM.getDocument,
\* DOM.querySelectorAll, DOM.describeNode, DOM.getAttributes, DOM.getBoxModel
\* and CSS.getComputedStyleForNode all read it and none writes it
pageAfter(q) == q

\* getElement, or getCssProvenance for a property that passes the check
QueryAnswer ==
  /\ reply = <<>>
  /\ query.tool = "getCssProvenance" => ~isShorthand(query.property)
  /\ \E p \in Protocols(query) : reply' = <<queryBody(query, p)>>
  /\ query' = pageAfter(query)
  /\ UNCHANGED <<sessionVars, cascadeVars, sourceVars, pageVars>>

\* getElement called a second time with the arguments of the first, on the
\* document the first call left and with the protocol behaving as it did
QueryRepeat ==
  /\ Len(reply) = 1
  /\ query.tool = "getElement"
  /\ reply' = Append(reply, queryBody(query, reply[1].protocol))
  /\ query' = pageAfter(query)
  /\ UNCHANGED <<sessionVars, cascadeVars, sourceVars, pageVars>>

QueryInit ==
  /\ \E v \in Variants : SessionInit(v)
  /\ CascadeIdle
  /\ SourceIdle
  /\ query \in Queries
  /\ reply = <<>>
  /\ PageIdle

QueryNext == QueryReject \/ QueryAnswer \/ QueryRepeat

QuerySpec == QueryInit /\ [][QueryNext]_vars

----------------------------------------------------------------------------
\* Page tools as run with an active session: navigate and getPageContent
\* (src/unnamed/part_001), pageInteract (src/src/tools/screenshot.ts), and
\* the navigation sessionStart performs (src/unnamed/part_000)

\* the origins a URL may have
Origins == {"https://a.test", "https://b.test"}

\* URL texts by form: an absolute http(s) URL of an origin, a relative path,
\* a text that starts with http:// but does not parse, and a text new URL()
\* rejects even against a base
Urls ==
  [form : {"http"}, origin : Origins]
  \cup [form : {"relative", "malformed", "unresolvable"}, origin : {""}]

\* policy.allowedOrigins: undefined, or a list
AllowedOrigins == {<<>>} \cup {<<l>> : l \in SUBSET Origins}

\* playwright.baseURL: undefined, or an absolute URL
BaseUrls == {<<>>} \cup {<<o>> : o \in Origins}

\* new URL(url).origin, <<>> when the constructor throws
originOf(url) == IF url.form = "http" THEN <<url.origin>> ELSE <<>>

\* isOriginAllowed
isOriginAllowed(url, allowedOrigins) ==
  IF allowedOrigins = <<>> \/ allowedOrigins[1] = {} THEN TRUE
  ELSE /\ originOf(url) # <<>>
       /\ originOf(url)[1] \in allowedOrigins[1]

\* navigate lines 13-28: the URL handed to the policy check, <<>> when
\* new URL(params.url, baseURL) throws
resolveUrl(url, baseURL) ==
  IF url.form \in {"http", "malformed"} THEN <<url>>
  ELSE IF baseURL # <<>>
    THEN IF url.form = "relative"
           THEN <<[form |-> "http", origin |-> baseURL[1]]>>
           ELSE <<>>
  ELSE <<url>>

\* how page.goto may end for a URL
GotoOutcomes(url) ==
  IF url.form = "http" THEN {"ok", "Timeout", "Error"} ELSE {"Error"}

\* what a call did and returned: its code, the URLs handed to page.goto,
\* whether it called touchSession()
Outcome(code, went, touched) ==
  [code |-> code, went |-> went, touched |-> touched]

\* navigate
Navigate ==
  /\ request.tool = "navigate"
  /\ response = <<>>
  /\ LET resolved == resolveUrl(request.url, request.baseURL)
     IN IF resolved = <<>>
          THEN response' = <<Outcome("UNEXPECTED_ERROR", <<>>, FALSE)>>
        ELSE IF ~isOriginAllowed(resolved[1], request.allowedOrigins)
          THEN response' =
                 <<Outcome("NAVIGATION_BLOCKED_BY_POLICY", <<>>, FALSE)>>
        ELSE \E goto \in GotoOutcomes(resolved[1]) :
               response' =
                 <<IF goto = "ok" THEN Outcome("ok", resolved, TRUE)
                   ELSE IF goto = "Timeout"
                     THEN Outcome("NAVIGATION_TIMEOUT", resolved, FALSE)
                   ELSE Outcome("UNEXPECTED_ERROR", resolved, FALSE)>>
  /\ UNCHANGED <<sessionVars, cascadeVars, sourceVars, queryVars, request>>

\* sessionStart after setSession: the navigation to params.url, its
\* failure only logged
StartNavigate ==
  /\ request.tool = "startSession"
  /\ response = <<>>
  /\ response' =
       <<Outcome("ok",
                 IF NavigatesUrl(variant) /\ request.url # <<>>
                   THEN request.url ELSE <<>>,
                 FALSE)>>
  /\ UNCHANGED <<sessionVars, cascadeVars, sourceVars, queryVars, request>>

\* the action types of the model: two the driver can perform, and one
\* executeAction does not know
ActionTypes == {"click", "wait", "unknown"}

RECURSIVE ActionLists(_)
ActionLists(n) ==
  IF n = 0 THEN {<<>>}
  ELSE ActionLists(n - 1)
         \cup {Append(l, a) : l \in {m \in ActionLists(n - 1) : Len(m) = n - 1},
                              a \in ActionTypes}

\* how executeAction may end for an action: the default branch of its switch
\* throws, a driver call succeeds or throws
ActionOutcomes(action) ==
  IF action = "unknown" THEN {FALSE} ELSE BOOLEAN

\* a loop that goes on to the next action after a failure
afterActionGoOn(ok, i, n) ==
  IF i + 1 < n THEN "next" ELSE "done"

\* pageInteract after executeAction(page, actions[i]) of n actions: the
\* catch returns at once, the loop ends after the last action
afterAction(ok, i, n) ==
  IF ~ok THEN "failed"
  ELSE IF i + 1 < n THEN "next"
  ELSE "done"

\* the state of a pageInteract call: the (0-based) indices of the actions
\* handed to executeAction so far and how each ended, and the result
Interact(code, executed, oks, failedAtIndex, action) ==
  [code |-> code, executed |-> executed, oks |-> oks,
   failedAtIndex |-> failedAtIndex, action |-> action, touched |-> FALSE]

\* pageInteract from its call to the first await
InteractCall ==
  /\ request.tool = "pageInteract"
  /\ response = <<>>
  /\ response' =
       <<IF Len(request.actions) = 0
           THEN Interact("ok", <<>>, <<>>, <<>>, <<>>)
           ELSE Interact("running", <<0>>, <<>>, <<>>, <<>>)>>
  /\ UNCHANGED <<sessionVars, cascadeVars, sourceVars, queryVars, request>>

\* pageInteract resumes after await executeAction(page, action)
InteractStep ==
  /\ request.tool = "pageInteract"
  /\ response # <<>>
  /\ response[1].code = "running"
  /\ LET r == response[1]
         i == r.executed[Len(r.executed)]
         n == Len(request.actions)
     IN \E ok \in ActionOutcomes(request.actions[i + 1]) :
          LET oks  == Append(r.oks, ok)
              then == afterAction(ok, i, n)
          IN response' =
               <<IF then = "failed"
                   THEN Interact("ok_false", r.executed, oks, <<i>>,
                                 <<request.actions[i + 1]>>)
                 ELSE IF then = "next"
                   THEN Interact("running", Append(r.executed, i + 1), oks,
                                 <<>>, <<>>)
                 ELSE Interact("ok", r.executed, oks, <<>>, <<>>)>>
  /\ UNCHANGED <<sessionVars, cascadeVars, sourceVars, queryVars, request>>

\* the HTML page.content() answers: the first characters of one text
Htmls == {SubSeq(<<"<", "p", ">", "x">>, 1, n) : n \in 0..MaxHtml}

\* params.start and params.length: omitted, or a number
Starts == {<<>>} \cup {<<n>> : n \in (0 - 1)..(MaxHtml + 1)}

Lengths == {<<>>} \cup {<<n>> : n \in (0 - 2)..(MaxHtml + 1)}

\* how String.prototype.slice reads an index: a negative one counts from
\* the end, and the result is kept within the text
Clamped(index, len) ==
  IF index < 0 THEN (IF len + index < 0 THEN 0 ELSE len + index)
  ELSE IF index > len THEN len
  ELSE index

\* String.prototype.slice(start, end); end is <<>> when omitted
stringSlice(text, start, end) ==
  LET from == Clamped(start, Len(text))
      to   == IF end = <<>> THEN Len(text) ELSE Clamped(end[1], Len(text))
  IN  IF from < to THEN SubSeq(text, from + 1, to) ELSE <<>>

\* a slice that always runs to the end of the page
contentSliceToEnd(fullHtml, start, length) ==
  stringSlice(fullHtml, start, <<>>)

\* getPageContent lines 137-148: the slice of the page
contentSlice(fullHtml, start, length) ==
  IF length = 0 - 1 THEN stringSlice(fullHtml, start, <<>>)
  ELSE stringSlice(fullHtml, start, <<start + length>>)

\* getPageContent
GetPageContent ==
  /\ request.tool = "getPageContent"
  /\ response = <<>>
  /\ \E content \in {"ok", "throws"} :
       response' =
         <<IF content = "throws"
             THEN [code |-> "UNEXPECTED_ERROR", html |-> <<>>,
                   fullLength |-> 0, touched |-> FALSE]
             ELSE LET start  == IF request.start = <<>> THEN 0
                                ELSE request.start[1]
                      length == IF request.length = <<>> THEN 0 - 1
                                ELSE request.length[1]
                  IN [code |-> "ok",
                      html |-> contentSlice(request.html, start, length),
                      fullLength |-> Len(request.html),
                      touched |-> TRUE]>>
  /\ UNCHANGED <<sessionVars, cascadeVars, sourceVars, queryVars, request>>

\* DEFAULT_COMPUTED_PROPERTIES
DEFAULT_COMPUTED_PROPERTIES ==
  <<"display", "position", "width", "height", "top", "right", "bottom",
    "left", "margin-top", "margin-right", "margin-bottom", "margin-left",
    "padding-top", "padding-right", "padding-bottom", "padding-left",
    "border-top-width", "border-right-width", "border-bottom-width",
    "border-left-width", "font-size", "font-family", "font-weight",
    "line-height", "color", "background-color", "z-index", "opacity",
    "visibility", "overflow", "flex-direction", "justify-content",
    "align-items">>

\* the entries of include.computed: the sentinel, a default name, a name
\* outside the defaults
ComputedItems == {"ALL_DEFAULTS", "color", "zoom"}

\* include.computed: omitted, or a list of at most MaxRequested entries
ComputedArgs ==
  {<<>>} \cup {<<l>> : l \in UNION {[1..k -> ComputedItems] : k \in 0..MaxRequested}}

\* the names the style engine reports: two of the defaults, one outside them
EngineNames == {"color", "display", "zoom"}

EngineValues == {"v1", "v2"}

\* the computedStyle of CSS.getComputedStyleForNode: at most MaxStyles
\* entries, no name twice
ComputedStyles ==
  {cs \in UNION {[1..k -> [name : EngineNames, value : EngineValues]] :
                   k \in 0..MaxStyles} :
     \A i, j \in 1..Len(cs) : cs[i].name = cs[j].name => i = j}

\* getElement lines 192-201: the property list built from include.computed
RECURSIVE expandProperties(_)
expandProperties(computed) ==
  IF computed = <<>> THEN <<>>
  ELSE (IF Head(computed) = "ALL_DEFAULTS" THEN DEFAULT_COMPUTED_PROPERTIES
        ELSE <<Head(computed)>>) \o expandProperties(Tail(computed))

\* Array.prototype.includes
includes(list, x) == \E i \in 1..Len(list) : list[i] = x

\* the loop of getComputedStyles without its filter
getComputedStylesUnfiltered(computedStyle, properties) ==
  [n \in {computedStyle[i].name : i \in 1..Len(computedStyle)} |->
     computedStyle[CHOOSE i \in 1..Len(computedStyle) :
                     /\ computedStyle[i].name = n
                     /\ \A j \in (i + 1)..Len(computedStyle) :
                          computedStyle[j].name # n].value]

\* the loop of getComputedStyles: result[style.name] = style.value for every
\* style the property list includes (a later entry of a name overwrites an
\* earlier one)
getComputedStyles(computedStyle, properties) ==
  [n \in {computedStyle[i].name :
            i \in {k \in 1..Len(computedStyle) :
                     includes(properties, computedStyle[k].name)}} |->
     computedStyle[CHOOSE i \in 1..Len(computedStyle) :
                     /\ computedStyle[i].name = n
                     /\ \A j \in (i + 1)..Len(computedStyle) :
                          computedStyle[j].name # n].value]

\* getElement's computed step for one node: skipped when include.computed is
\* omitted; CSS_DOMAIN_UNAVAILABLE when the protocol call fails
GetComputed ==
  /\ request.tool = "getElement"
  /\ response = <<>>
  /\ \E answer \in {"ok", "throws"} :
       response' =
         <<IF request.computed = <<>>
             THEN [code |-> "ok", computed |-> <<>>]
           ELSE IF answer = "throws"
             THEN [code |-> "CSS_DOMAIN_UNAVAILABLE", computed |-> <<>>]
           ELSE [code |-> "ok",
                 computed |->
                   <<getComputedStyles(request.computedStyle,
                                       expandProperties(request.computed[1]))>>]>>
  /\ UNCHANGED <<sessionVars, cascadeVars, sourceVars, queryVars, request>>

\* the calls of the page tools
Requests ==
  [tool : {"getPageContent"}, html : Htmls, start : Starts, length : Lengths]
  \cup
  [tool : {"getElement"}, computed : ComputedArgs,
   computedStyle : ComputedStyles]
  \cup
  [tool : {"pageInteract"}, actions : ActionLists(MaxActions)]
  \cup
  [tool : {"navigate"}, url : Urls, baseURL : BaseUrls,
   allowedOrigins : AllowedOrigins]
  \cup
  [tool : {"startSession"}, url : {<<>>} \cup {<<u>> : u \in Urls},
   baseURL : BaseUrls, allowedOrigins : AllowedOrigins]

PageInit ==
  /\ \E v \in Variants : SessionInit(v)
  /\ CascadeIdle
  /\ SourceIdle
  /\ QueryIdle
  /\ request \in Requests
  /\ response = <<>>

PageNext ==
  \/ Navigate
  \/ StartNavigate
  \/ InteractCall
  \/ InteractStep
  \/ GetPageContent
  \/ GetComputed

PageSpec == PageInit /\ [][PageNext]_vars

----------------------------------------------------------------------------
(* Properties of the session lifecycle *)

\* browsers launched and not closed
Live == {s \in Sids : browser[s] \in {"open", "released"}}

\* starts that have marked the start in progress and not yet called setSession
StartsPending == {t \in Reqs : task[t].kind = "start" /\ task[t].pc # "goto"}

StartErrors == {"HOOKS_START_FAILED", "PLAYWRIGHT_LAUNCH_FAILED", "UNEXPECTED_ERROR"}

\* C1: at most one browser is live at a time: no browser is launched while an
\* earlier one has not been closed.
C1_AtMostOneLiveBrowser == Cardinality(Live) <= 1

\* C2: when startSession returns a failure of the start itself (scenario, hook
\* or launch), no session is active and no start is marked in progress.
C2_FailedStartLeavesAbsent ==
  (ev.op = "start" /\ ev.code \in StartErrors)
    => (session = 0 /\ ~startInProgress)

\* a step in which a startSession request arrives
StartArrives ==
  \E t \in Reqs : task[t] = Free /\ (task'[t].kind = "start" \/ ev'.op = "start")

\* C3: a startSession request that arrives while a session is active is
\* answered ALREADY_STARTED and changes nothing of the manager.
C3_StartWhileActiveRejected ==
  [][(StartArrives /\ session # 0)
       => (ev'.code = "ALREADY_STARTED" /\ UNCHANGED <<mgr, task>>)]_vars

\* C4: at most one startSession is between its mark-in-progress and its
\* setSession (or failure).
C4_AtMostOneStartInFlight == Cardinality(StartsPending) <= 1

\* the order of teardown the specification states
ExpectedOrder(hasHook) ==
  <<"detach", "page", "context", "browser">> \o (IF hasHook THEN <<"hook">> ELSE <<>>)

IsPrefix(a, b) == Len(a) <= Len(b) /\ a = SubSeq(b, 1, Len(a))

\* C5: a teardown attempts detach, close page, close context, close browser and
\* then the hook callback (when the session carries one), in this order, and
\* ends only when all of them have been attempted, whatever failed before.
C5_TeardownOrder ==
  /\ \A t \in TaskIds : task[t].kind \in {"stop", "idle"} =>
       /\ IsPrefix(Append(task[t].log, task[t].pc), ExpectedOrder(TRUE))
       /\ task[t].pc = "hook" => hookStop[task[t].sid]
  /\ (ev.op \in {"stop", "idle"} /\ ev.sid # 0) => ev.log = ExpectedOrder(ev.hook)

\* a teardown that ran the hook callback although browser.close() had failed
C5_Witness ==
  /\ ev.op = "stop"
  /\ ev.log = ExpectedOrder(TRUE)
  /\ browser[ev.sid] = "released"

\* C6: stopSession answers HOOKS_STOP_FAILED exactly when the hook callback
\* failed and ok otherwise (failed release steps are swallowed); after a
\* teardown the manager holds no session, no start in progress and no timer.
C6_StopOutcome ==
  ev.op = "stop" =>
    /\ ev.code = IF ev.sid # 0 /\ ev.hook /\ ~ev.lastOk THEN "HOOKS_STOP_FAILED" ELSE "ok"
    /\ ev.sid # 0 =>
         /\ session = 0 /\ ~startInProgress /\ idleTimer = 0
         /\ timers[ev.sid] = NotPending

\* a stop that swallowed the failure of browser.close() and surfaced the
\* failure of the hook callback
C6_Witness ==
  /\ ev.op = "stop"
  /\ ev.code = "HOOKS_STOP_FAILED"
  /\ browser[ev.sid] = "released"
  /\ session = 0

\* a step in which a due idle timeout fires
IdleFires == \E s \in Sids : timers[s] = 0 /\ timers'[s] = NotPending

\* a step in which a page tool is called while no session is active
ToolCalledAbsent ==
  /\ session = 0
  /\ ev'.op \in PageTools
  /\ \A t \in Reqs : task[t].kind # "tool"

\* C7: left without a qualifying tool call, an active session does not stay:
\* its idle timer runs down and fires, the firing leaves the manager without
\* a session, and a page tool called while there is none is answered
\* NO_ACTIVE_SESSION.
C7_IdleEventuallyAbsent ==
  /\ (session # 0) ~> (session = 0)
  /\ [][IdleFires => session' = 0]_vars
  /\ [][ToolCalledAbsent => ev'.code = "NO_ACTIVE_SESSION"]_vars

\* the teardown begun by the idle timer has ended and no session is active
C7_Witness == ev.op = "idle" /\ ev.sid # 0 /\ session = 0

\* C8: a page tool that succeeds on a session that is still the active one
\* has touched it; when the touch is the last thing before the return, the
\* idle timer is at its full duration and lastUsedAt is the current time.
C8_SuccessTouches ==
  (ev.op \in PageTools /\ ev.code = "ok" /\ ev.sid # 0 /\ session = ev.sid) =>
    /\ ev.touched
    /\ ev.op \notin {"getElement", "getCssProvenance"} =>
         (timers[idleTimer] = IdleTicks /\ lastUsedAt[session] = now)

\* a step of startSession or stopSession
MgmtStep ==
  \/ ev'.op \in {"start", "stop"}
  \/ \E t \in Reqs : /\ task'[t] # task[t]
                     /\ {task[t].kind, task'[t].kind} \cap {"start", "stop"} # {}

\* C9: no step of startSession or stopSession re-arms or postpones a pending
\* idle timer: it leaves the timer as it is, or (stop) cancels it.
C9_StartStopNeverResetTimer ==
  [][MgmtStep => \A s \in Sids :
       timers[s] # NotPending => timers'[s] \in {timers[s], NotPending}]_vars

\* a start request was rejected while the active session's timer had
\* partly run down, and the timer is still where it was
C9_Witness ==
  /\ ev.op = "start"
  /\ ev.code \in {"ALREADY_STARTED", "SESSION_START_IN_PROGRESS"}
  /\ session # 0
  /\ timers[session] \in 0..(IdleTicks - 1)

\* C17: a startSession invokes the scenario's hook function at most once,
\* and not at all when no hook ran because no scenario was supplied.
C17_HookAtMostOnce == ev.op = "start" => ev.calls <= 1

\* a step in which a tool call arrives: it is answered at once, or it
\* suspends at its first driver call
ToolArrives ==
  \/ ev'.op \in Tools /\ task' = task
  \/ \E t \in Reqs : task[t] = Free /\ task'[t].kind = "tool"

\* C18: a tool called while the manager holds no session is answered
\* NO_ACTIVE_SESSION at once: no driver call is awaited and nothing of the
\* manager changes.
C18_NoSessionNoTool ==
  [][(ToolArrives /\ session = 0)
       => (ev'.code = "NO_ACTIVE_SESSION" /\ task' = task /\ UNCHANGED mgr)]_vars

\* a page tool was refused after a session had been started and torn down
C18_Witness ==
  /\ ev.op \in PageTools
  /\ ev.code = "NO_ACTIVE_SESSION"
  /\ session = 0
  /\ \E s \in Sids : browser[s] \in {"released", "closed"}

----------------------------------------------------------------------------
(* Properties of the cascade engine *)

\* the places of the declarations the style engine reported: rule 0 is the
\* inline style
Places ==
  {<<0, j>> : j \in 1..Len(matchedStyles.inlineStyle)} \cup
  UNION {{<<i, j>> : j \in 1..Len(matchedStyles.matchedCSSRules[i])} :
           i \in 1..Len(matchedStyles.matchedCSSRules)}

PropAt(pl) ==
  IF pl[1] = 0 THEN matchedStyles.inlineStyle[pl[2]]
  ELSE matchedStyles.matchedCSSRules[pl[1]][pl[2]]

\* the enabled declarations of the queried property
Candidates == {pl \in Places : PropAt(pl).name = property /\ ~PropAt(pl).disabled}

BucketPriority ==
  <<"inline-important", "stylesheet-important", "inline-normal", "stylesheet-normal">>

Bucket(pl) ==
  IF pl[1] = 0
    THEN (IF PropAt(pl).important THEN "inline-important" ELSE "inline-normal")
    ELSE (IF PropAt(pl).important THEN "stylesheet-important" ELSE "stylesheet-normal")

Priority(b) == CHOOSE i \in 1..Len(BucketPriority) : BucketPriority[i] = b

\* a is reported after b
Later(a, b) == a[1] > b[1] \/ (a[1] = b[1] /\ a[2] > b[2])

\* a is in a higher bucket than b, or in the same bucket and reported later
Outranks(a, b) ==
  \/ Priority(Bucket(a)) < Priority(Bucket(b))
  \/ Bucket(a) = Bucket(b) /\ Later(a, b)

Answered == result # <<>> /\ result[1].error = "none"

\* C10: the winner findWinningDeclaration returns is the declaration that
\* outranks every other enabled declaration of the property: the last one of
\* the highest non-empty bucket in the order inline-important,
\* stylesheet-important, inline-normal, stylesheet-normal; so an inline normal
\* declaration wins over stylesheet normal ones, and a stylesheet important
\* declaration wins over inline normal ones.
C10_WinnerByBucketPriority ==
  (Answered /\ Candidates # {}) =>
    /\ Len(result[1].winner) = 1
    /\ \E w \in Candidates :
         /\ \A o \in Candidates \ {w} : Outranks(w, o)
         /\ result[1].winner[1].value = ValueAt(w[1], w[2])
         /\ result[1].winner[1].source = (IF w[1] = 0 THEN "inline" ELSE "stylesheet")
         /\ result[1].winner[1].important = PropAt(w).important
    /\ ((\E c \in Candidates : Bucket(c) = "inline-normal")
          /\ (\A c \in Candidates : ~PropAt(c).important))
         => result[1].winner[1].source = "inline"
    /\ ((\E c \in Candidates : Bucket(c) = "stylesheet-important")
          /\ (\A c \in Candidates : Bucket(c) # "inline-important"))
         => result[1].winner[1].source = "stylesheet"

\* an important stylesheet declaration has won over an inline normal
\* declaration
C10_Witness ==
  /\ Answered
  /\ \E c \in Candidates : Bucket(c) = "inline-normal"
  /\ \E c \in Candidates : Bucket(c) = "stylesheet-important"
  /\ Len(result[1].winner) = 1
  /\ result[1].winner[1].source = "stylesheet"
  /\ result[1].winner[1].important
  /\ \E c \in Candidates : /\ result[1].winner[1].value = ValueAt(c[1], c[2])
                           /\ \A o \in Candidates : Bucket(o) = Bucket(c) => ~Later(o, c)

\* the stylesheet declarations of the property with importance b
SheetCandidates(b) ==
  {c \in Candidates : c[1] # 0 /\ PropAt(c).important = b}

\* no declaration stands in a bucket above that of the stylesheet
\* declarations with importance b
SheetBucketDecides(b) ==
  /\ SheetCandidates(b) # {}
  /\ \A c \in Candidates \ SheetCandidates(b) :
       Priority(Bucket(c)) > Priority(IF b THEN "stylesheet-important"
                                           ELSE "stylesheet-normal")

\* C11: when stylesheet declarations of equal importance decide the cascade,
\* the winner is the one reported last in the style engine's match order (the
\* order of matchedCSSRules, then of the rule's declarations), and
\* winner.selector is the selector text of the rule it stands in.
C11_LaterRuleWins ==
  Answered =>
    \A b \in BOOLEAN : SheetBucketDecides(b) =>
      \E w \in SheetCandidates(b) :
        /\ \A o \in SheetCandidates(b) \ {w} : Later(w, o)
        /\ Len(result[1].winner) = 1
        /\ result[1].winner[1].source = "stylesheet"
        /\ result[1].winner[1].value = ValueAt(w[1], w[2])
        /\ result[1].winner[1].selector = <<SelectorOf(w[1])>>

\* two rules declare the property with equal importance and the second
\* rule's selector is reported
C11_Witness ==
  /\ Answered
  /\ \E b \in BOOLEAN :
       /\ SheetBucketDecides(b)
       /\ \E c, d \in SheetCandidates(b) : c[1] = 1 /\ d[1] = 2
  /\ Len(result[1].winner) = 1
  /\ result[1].winner[1].selector = <<SelectorOf(2)>>

\* the places of S in the order the declarations are collected: inline
\* first, then the matched rules in match order
RECURSIVE InOrder(_)
InOrder(S) ==
  IF S = {} THEN <<>>
  ELSE LET first == CHOOSE c \in S : \A o \in S \ {c} : Later(o, c)
       IN <<first>> \o InOrder(S \ {first})

Built == info # <<>> /\ info[1].record.error = "none"

\* C15: when the node has no enabled declaration of the property, its
\* provenance record has neither winner nor contributors, and its
\* computedValue is the value the style engine reports, null only when the
\* engine reports none.
C15_NoDeclarationNoWinner ==
  (Built /\ Candidates = {}) =>
    /\ info[1].record.winner = <<>>
    /\ info[1].record.contributors = <<>>
    /\ info[1].record.property = property
    /\ info[1].record.computedValue =
         (IF info[1].computed \in {"absent", ""} THEN <<>> ELSE <<info[1].computed>>)

\* a node whose only declarations of the property are disabled has a
\* computed value and no winner
C15_Witness ==
  /\ Built
  /\ Candidates = {}
  /\ \E pl \in Places : PropAt(pl).name = property /\ PropAt(pl).disabled
  /\ info[1].record.winner = <<>>
  /\ info[1].record.computedValue = <<"red">>

\* the place of the declaration the winner record was made from
WinnerPlaces ==
  {c \in Candidates : /\ Len(result[1].winner) = 1
                      /\ result[1].winner[1].value = ValueAt(c[1], c[2])}

----------------------------------------------------------------------------
(* Properties of the declaration source resolver *)

Located == source # <<>> /\ declaration.origin # "inline" /\ sheet.styleSheetId

\* C20: whatever the two stylesheet fetches do, declarationToSource returns
\* a record with the declaration's value and importance; a failed text fetch
\* leaves out line, column and snippet only, a failed URL fetch leaves out
\* stylesheetUrl only.
C20_FetchFailuresSwallowed ==
  source # <<>> =>
    /\ source[1].record.value = ValueAt(declaration.rule, declaration.idx)
    /\ source[1].record.important = declaration.property.important
    /\ Located =>
         /\ (source[1].location.stylesheetUrl # <<>>) <=> (sheet.header = "url")
         /\ (source[1].location.line # <<>>)
              <=> (sheet.range # <<>> /\ sheet.text \notin {<<"throws">>, <<"">>})
         /\ (source[1].location.column # <<>>) <=> (source[1].location.line # <<>>)
         /\ source[1].location.snippet # <<>> => source[1].location.line # <<>>

\* both fetches failed and the record of the stylesheet declaration is there,
\* without a location
C20_Witness ==
  /\ Located
  /\ sheet.text = <<"throws">>
  /\ sheet.header = "throws"
  /\ sheet.range # <<>>
  /\ source[1].record.source = "stylesheet"
  /\ source[1].location = Nowhere

\* C23: every tool call ends either in a success payload or in a structured
\* error whose code is one of the defined error codes; no failure of a hook,
\* the driver or the protocol leaves a tool function in another shape.
C23_StructuredOutcome ==
  ev.op \in Tools \cup {"start", "stop"} => ev.code \in {"ok"} \cup ErrorCodes

\* how many times the hook callback was invoked by a teardown
HookCalls(log) == Cardinality({i \in 1..Len(log) : log[i] = "hook"})

\* C25: a stop callback returned by a setup hook is invoked exactly once,
\* by the teardown of its session (stop or idle timeout), and a start that
\* fails after it obtained one does not leave it uninvoked.
C25_StopCallbackOnce ==
  /\ (ev.op = "start" /\ ev.code # "ok") => ~ev.hook
  /\ (ev.op \in {"stop", "idle"} /\ ev.sid # 0)
       => HookCalls(ev.log) = IF ev.hook THEN 1 ELSE 0

\* C24: on a shutdown signal the stop path of the manager runs once and the
\* process then exits, whatever the manager's state at the signal (absent,
\* starting, active) and whether or not a teardown step or the hook's stop
\* callback fails.
C24_ShutdownExits ==
  /\ ev.op = "shutdown" => process \in {"exited", "crashed"}
  /\ process \in {"running", "stopping"}
       \/ Cardinality({t \in TaskIds : task[t].kind = "shutdown"}) = 0

\* C29: startSession with a scenario the configuration does not define
\* fails with HOOKS_START_FAILED, launches no browser, invokes no hook and
\* leaves the manager absent.
C29_UnknownScenarioRejected ==
  [][\A t \in Reqs :
       (session = 0 /\ ~startInProgress /\ StartIssue(t, "unknown"))
         => /\ ev'.code = "HOOKS_START_FAILED"
            /\ ev'.calls = 0
            /\ browser' = browser /\ nextSid' = nextSid
            /\ session' = 0 /\ ~startInProgress']_vars

----------------------------------------------------------------------------
\* Properties of the element queries

Replied == reply # <<>>

\* C12: getCssProvenance for any property name of the shorthand table fails
\* with the shorthand rejection, without one protocol command sent, and with
\* the same error whatever number of nodes the target matches.
C12_ShorthandRejectedFirst ==
  (Replied /\ query.tool = "getCssProvenance"
           /\ query.property \in ShorthandTable)
    => /\ reply[1].code = "UNEXPECTED_ERROR"
       /\ reply[1].message = "shorthand"
       /\ reply[1].sent = {}
       /\ reply[1].results = <<>>

\* a shorthand asked about on a target that matches nodes has been answered
C12_Witness ==
  /\ Replied
  /\ query.tool = "getCssProvenance"
  /\ query.property = "border-color"
  /\ query.matches > 0
  /\ reply[1].message = "shorthand"

\* the call is not one the shorthand check turns away
PassesShorthandCheck ==
  query.tool = "getCssProvenance"
    => query.property \notin ShorthandTable \cup InheritedKeys

\* C13: when the target matches no node, getElement and getCssProvenance
\* (longhand property) fail with ELEMENT_NOT_FOUND for every maxResults, and
\* no success carries matchCount 0.
C13_ZeroMatchesNotFound ==
  Replied =>
    /\ (PassesShorthandCheck /\ query.matches = 0
           /\ reply[1].protocol.resolve = "ok")
         => reply[1].code = "ELEMENT_NOT_FOUND"
    /\ reply[1].code = "ok"
         => reply[1].matchCount > 0 /\ Len(reply[1].results) > 0

\* a target without a match has been answered to a call that gave maxResults
C13_Witness ==
  /\ Replied
  /\ query.matches = 0
  /\ query.maxResults = <<MaxResultsCap + 1>>
  /\ reply[1].code = "ELEMENT_NOT_FOUND"

\* clamp(maxResults, 0, 50), 10 when maxResults is omitted
ClampedMaxResults ==
  LET asked == IF query.maxResults = <<>> THEN 10 ELSE query.maxResults[1]
  IN  IF asked < 0 THEN 0 ELSE IF asked > 50 THEN 50 ELSE asked

ExpectedCount ==
  IF query.matches < ClampedMaxResults THEN query.matches
  ELSE ClampedMaxResults

\* C14: for every maxResults (negative and above 50 included, 10 when
\* omitted) the number of nodes resolved is
\* min(actualMatchCount, clamp(maxResults, 0, 50)), they are the first nodes
\* in document order, and a success has matchCount equal to the length of
\* results.
C14_ResolvedCount ==
  Replied =>
    /\ reply[1].code = "ok" =>
         /\ reply[1].matchCount = ExpectedCount
         /\ reply[1].matchCount = Len(reply[1].results)
         /\ \A k \in 1..Len(reply[1].results) : reply[1].results[k].node = k
    /\ reply[1].code = "ELEMENT_NOT_FOUND" => ExpectedCount = 0

\* C19: in a getElement call whose target has resolved several nodes, the failure of
\* per-node accessors (node name, attributes, box model, computed styles) on
\* one node leaves the call a success with an entry for every resolved node.
C19_AccessorFailureDegrades ==
  (Replied /\ query.tool = "getElement"
           /\ query.matches > 1
           /\ reply[1].protocol.resolve = "ok"
           /\ reply[1].protocol.node # 0
           /\ reply[1].protocol.failing # {})
    => /\ reply[1].code = "ok"
       /\ Len(reply[1].results) = reply[1].matchCount
       /\ reply[1].matchCount >= reply[1].protocol.node

\* a protocol call that the handler does not absorb failed with a timeout
TimedOut ==
  /\ Replied
  /\ PassesShorthandCheck
  /\ reply[1].protocol.text = "Timeout"
  /\ \/ reply[1].protocol.resolve = "throws"
     \/ reply[1].protocol.failing \cap {"computed", "matched"} # {}

\* C21: a driver or protocol call that fails with a timeout text makes
\* getElement and getCssProvenance report QUERY_TIMEOUT, target resolution
\* and style fetches included, never a generic code.
C21_TimeoutKind == TimedOut => reply[1].code = "QUERY_TIMEOUT"

----------------------------------------------------------------------------
\* Properties of the page tools

Responded == response # <<>>

\* the policy lists origins
PolicySet == request.allowedOrigins # <<>> /\ request.allowedOrigins[1] # {}

\* the origin the page is taken to by page.goto(url): that of an absolute
\* URL, that of the context's baseURL for a relative one, none when the
\* driver cannot make a URL of it
LandsOn(url) ==
  IF url.form = "http" THEN {url.origin}
  ELSE IF url.form = "relative" /\ request.baseURL # <<>>
    THEN {request.baseURL[1]}
  ELSE {}

\* C22: with a non-empty policy.allowedOrigins, neither navigate nor
\* startSession with a url hands page.goto a URL whose origin is not listed;
\* a navigate that is turned away reports NAVIGATION_BLOCKED_BY_POLICY, has
\* not called page.goto and has not touched the idle timer.
C22_NoGotoOutsidePolicy ==
  (Responded /\ request.tool \in {"navigate", "startSession"} /\ PolicySet)
    => /\ \A i \in 1..Len(response[1].went) :
            LandsOn(response[1].went[i]) \subseteq request.allowedOrigins[1]
       /\ response[1].code = "NAVIGATION_BLOCKED_BY_POLICY"
            => response[1].went = <<>> /\ ~response[1].touched

\* the role the element is to report: its role attribute when it has one,
\* else the lookup of its tag name (of its type for an input), else none
ExpectedRole ==
  LET e == query.element
  IN  IF e.role # <<>> THEN e.role
      ELSE IF e.nodeName = "BUTTON" THEN <<"button">>
      ELSE IF e.nodeName = "INPUT"
        THEN IF e.type = <<"checkbox">> THEN <<"checkbox">> ELSE <<"textbox">>
      ELSE <<>>

\* C26: when getElement is asked for the role, every node reports the role
\* attribute of the element when it has one, whether or not the attributes
\* were asked for as well, and otherwise the role its tag name maps to (for
\* an input, the one its type maps to), or none.
C26_RoleReported ==
  (Replied /\ query.tool = "getElement" /\ "role" \in query.include
           /\ reply[1].code = "ok" /\ reply[1].protocol.node = 0)
    => \A k \in 1..Len(reply[1].results) :
         reply[1].results[k].role = ExpectedRole

\* the call has returned
Returned == Responded /\ response[1].code # "running"

\* C27: pageInteract runs its actions in list order; at the first action
\* that fails it stops, runs no later action and returns ok: false with the
\* index of that action and the action; it returns ok: true exactly when
\* every action of the list succeeded.
C27_StopsAtFirstFailure ==
  (Responded /\ request.tool = "pageInteract") =>
    LET r == response[1]
        n == Len(request.actions)
    IN /\ \A j \in 1..Len(r.executed) : r.executed[j] = j - 1
       /\ Len(r.executed) <= n
       /\ \A j \in 1..Len(r.oks) : ~r.oks[j] => j = Len(r.oks)
       /\ Returned =>
            /\ Len(r.oks) = Len(r.executed)
            /\ r.code = "ok"
                 <=> (Len(r.oks) = n /\ \A j \in 1..n : r.oks[j])
            /\ r.code = "ok_false"
                 <=> (\E j \in 1..Len(r.oks) : ~r.oks[j])
            /\ r.code = "ok_false" =>
                 /\ r.failedAtIndex = <<Len(r.oks) - 1>>
                 /\ r.action = <<request.actions[Len(r.oks)]>>
            /\ r.code = "ok" => r.failedAtIndex = <<>> /\ r.action = <<>>

\* a list of three actions whose second action failed
C27_Witness ==
  /\ Returned
  /\ request.tool = "pageInteract"
  /\ Len(request.actions) = 3
  /\ response[1].code = "ok_false"
  /\ response[1].failedAtIndex = <<1>>
  /\ response[1].executed = <<0, 1>>

\* the characters of the page from position start (0-based) up to, not
\* including, position stop
Substring(text, start, stop) ==
  [i \in 1..(IF stop > start THEN stop - start ELSE 0) |-> text[start + i]]

\* C28: getPageContent reports fullLength as the length of the whole page
\* and, for start >= 0, returns the substring from start to
\* min(start + length, fullLength) when length >= 0, and from start to the
\* end when length is -1 or omitted (empty when start >= fullLength).
C28_ContentSlice ==
  (Responded /\ request.tool = "getPageContent" /\ response[1].code = "ok") =>
    LET full   == Len(request.html)
        start  == IF request.start = <<>> THEN 0 ELSE request.start[1]
        toEnd  == request.length = <<>> \/ request.length = <<0 - 1>>
        stop   == IF toEnd \/ start + request.length[1] > full THEN full
                  ELSE start + request.length[1]
    IN /\ response[1].fullLength = full
       /\ (start >= 0 /\ (toEnd \/ request.length[1] >= 0))
            => response[1].html = Substring(request.html, start, stop)

\* one character taken from the middle of a page of three
C28_Witness ==
  /\ Responded
  /\ request.tool = "getPageContent"
  /\ Len(request.html) = 3
  /\ request.start = <<1>>
  /\ request.length = <<1>>
  /\ response[1].code = "ok"
  /\ response[1].html = <<"p">>

----------------------------------------------------------------------------
\* Properties of the declarations taking part in the cascade

\* the declaration of matchedStyles a CssDeclarationSource was made from
DeclaredAt(src) ==
  IF src.value[1] = 0 THEN matchedStyles.inlineStyle[src.value[2]]
  ELSE matchedStyles.matchedCSSRules[src.value[1]][src.value[2]]

\* enabled, valid and named as the requested longhand
TakesPart(src) ==
  /\ DeclaredAt(src).name = property
  /\ ~DeclaredAt(src).disabled
  /\ DeclaredAt(src).parsedOk

\* C31: the winner and every contributor findWinningDeclaration returns is a
\* declaration of the requested property that is neither disabled nor
\* invalid (parsedOk false).
C31_OnlyValidDeclarations ==
  (result # <<>> /\ result[1].error = "none")
    => /\ \A i \in 1..Len(result[1].winner) : TakesPart(result[1].winner[i])
       /\ \A i \in 1..Len(result[1].contributors) :
            \A k \in 1..Len(result[1].contributors[i]) :
              TakesPart(result[1].contributors[i][k])

----------------------------------------------------------------------------
\* Properties of the manager's states

\* the moves absent -> starting -> active -> absent and starting -> absent
ManagerMoves ==
  {<<"absent", "starting">>, <<"starting", "active">>,
   <<"starting", "absent">>, <<"active", "absent">>}

\* the manager with a session s and the flag f
ManagerStateOf(s, f) ==
  IF s # 0 THEN "active" ELSE IF f THEN "starting" ELSE "absent"

\* C32: the manager is in exactly one of absent, starting, active: a session
\* is never active while a start is marked in progress, and every step either
\* keeps the state or makes one of the moves absent -> starting,
\* starting -> active, starting -> absent, active -> absent.
C32_ManagerStates ==
  [][/\ ~(session' # 0 /\ startInProgress')
     /\ LET from == ManagerStateOf(session, startInProgress)
            to   == ManagerStateOf(session', startInProgress')
        IN  from = to \/ <<from, to>> \in ManagerMoves]_vars

\* C33: when startSession returns a failure after its browser was launched,
\* that browser has been closed before the error is returned: with the manager
\* absent no browser of a failed start is left open.
C33_FailedStartReleases ==
  (ev.op = "start" /\ ev.code \in StartErrors /\ ev.sid # 0)
    => browser[ev.sid] \notin {"open", "released"}

\* the sessions whose idle timeout is pending
PendingTimers == {s \in Sids : timers[s] # NotPending}

\* C34: an idle timeout is pending exactly when a session is active, and it is
\* the one of the active session: none is pending while the manager is absent
\* or starting, and none of an earlier session next to the active one.
C34_OnePendingTimer ==
  PendingTimers = (IF session # 0 THEN {session} ELSE {})

\* stopSession has just returned ok
StopReturnedOk == ev.op = "stop" /\ ev.code = "ok"

\* C35: when stopSession has returned ok no session is active, and the step
\* that follows the return (which cannot be a whole later startSession: a
\* start reaches setSession only after its launch has been awaited) does not
\* make one active, whether or not a startSession was in flight when the stop
\* was issued.
C35_StoppedStaysStopped ==
  [][StopReturnedOk => (session = 0 /\ session' = 0)]_vars

\* the page tool calls that hold the session s between getSession() and
\* their return
InFlightOn(s) == {t \in Reqs : task[t].kind = "tool" /\ task[t].sid = s}

\* C36: the idle timeout never begins the teardown of the active session
\* while a page tool call that obtained that session has not returned.
C36_NoIdleTeardownUnderCall ==
  [][(IdleFires /\ session # 0 /\ session' = 0) => InFlightOn(session) = {}]_vars

\* C37: a page tool call that ends in an error has not called touchSession()
\* on a session: the idle timer and lastUsedAt are as the call found them.
C37_ErrorsDoNotTouch ==
  (ev.op \in PageTools /\ ev.code # "ok") => ~ev.touched

----------------------------------------------------------------------------
\* Properties of the provenance records

\* C38: a record whose source is "inline" has no selector, stylesheetUrl,
\* line, column or snippet; line, column and snippet stand only on a
\* "stylesheet" record whose declaration has a range and whose stylesheet
\* text was fetched.
C38_InlineHasNoLocation ==
  source # <<>>
    => /\ source[1].record.source = "inline"
            => /\ source[1].record.selector = <<>>
               /\ source[1].location = Nowhere
       /\ (\/ source[1].location.line # <<>>
           \/ source[1].location.column # <<>>
           \/ source[1].location.snippet # <<>>)
            => /\ source[1].record.source = "stylesheet"
               /\ sheet.range # <<>>
               /\ sheet.text # <<"throws">>

\* an inline declaration whose style names a stylesheet with a text and
\* whose property has a range has been mapped
C38_Witness ==
  /\ source # <<>>
  /\ source[1].record.source = "inline"
  /\ sheet.styleSheetId
  /\ sheet.range # <<>>
  /\ HasText(getStyleSheetText(sheet))

----------------------------------------------------------------------------
\* Properties of the computed styles

\* the elements of a list
Range(list) == {list[i] : i \in 1..Len(list)}

\* the names the caller asked for, ALL_DEFAULTS standing for the default list
RequestedNames ==
  (Range(request.computed[1]) \ {"ALL_DEFAULTS"})
    \cup (IF "ALL_DEFAULTS" \in Range(request.computed[1])
            THEN Range(DEFAULT_COMPUTED_PROPERTIES) ELSE {})

\* C39: the computed mapping getElement returns holds only names the caller
\* requested (ALL_DEFAULTS standing for the default list), each with the
\* value the style engine reports for that name, and none without
\* include.computed.
C39_OnlyRequestedStyles ==
  (Responded /\ request.tool = "getElement" /\ response[1].code = "ok")
    => IF request.computed = <<>> THEN response[1].computed = <<>>
       ELSE LET computed == response[1].computed[1]
            IN  /\ DOMAIN computed \subseteq RequestedNames
                /\ \A n \in DOMAIN computed :
                     \E i \in 1..Len(request.computedStyle) :
                       /\ request.computedStyle[i].name = n
                       /\ request.computedStyle[i].value = computed[n]

\* the defaults and nothing else were asked for, the engine reported a
\* default name and a name outside the defaults, and only the first came back
C39_Witness ==
  /\ Responded
  /\ request.tool = "getElement"
  /\ request.computed = <<<<"ALL_DEFAULTS">>>>
  /\ Len(request.computedStyle) = 2
  /\ request.computedStyle[1].name = "zoom"
  /\ request.computedStyle[2].name = "display"
  /\ response[1].code = "ok"
  /\ DOMAIN response[1].computed[1] = {"display"}

====
